---- MODULE Spec2Model ----
(***************************************************************************)
(* A model of the stock dashboard:                                         *)
(*   src/src/utils/stockAnalytics.ts                                        *)
(*     generateMockStockData, calculateTechnicalIndicators,                *)
(*     backtestStrategy;                                                    *)
(*   src/unnamed/part_000, the Index page                                   *)
(*     calculateOptionPrice, runMonteCarloSimulation, optimizePortfolio,   *)
(*     runBlackLitterman, handleCustomDataProcessed;                       *)
(*   src/src/components/CustomDataAnalytics.tsx                             *)
(*     FileUploadProcessor (processCSVFile, handleFileUpload) and the      *)
(*     render of CustomDataAnalytics.                                       *)
(* JavaScript numbers are modelled as exact rationals <<num, den>> with    *)
(* den > 0, kept in lowest terms.  An optional field of a StockData point  *)
(* is a key that is, or is not, in the DOMAIN of the point's record.       *)
(***************************************************************************)
EXTENDS Integers, Sequences, FiniteSets, TLC

VARIABLES
    pc,           \* position of the running call
    data,         \* the StockData[] argument / the array being built (0-based: data[k+1] is index k)
    i,            \* the loop index of the running call
    result,       \* calculateTechnicalIndicators: the copied array; it shares its points with data
    input,        \* observation only: the series as it was handed to the running call
    rnd,          \* the draws Math.random() yields for the overlays, a tape read cyclically
    symbol,       \* generateMockStockData: the symbol argument
    days,         \* generateMockStockData: the days argument
    currentPrice, \* generateMockStockData: the price of the random walk
    startDate,    \* generateMockStockData: a Date, as an instant in hours of UTC
    now,          \* the clock: the instant new Date() yields, in hours of UTC
    tz,           \* the time zone of the runtime
    capital,      \* backtestStrategy: cash
    shares,       \* backtestStrategy: shares held
    results,      \* backtestStrategy: the trace returned
    lastTrade,    \* observation only: what the latest backtest iteration did
    stockData,    \* Index: the series on display
    strikePrice,  \* Index: the option form's strike
    daysToExpiry, \* Index: the option form's days to expiry
    riskFreeRate, \* Index: the option form's risk-free rate, in percent
    volatility,   \* Index: the option form's volatility, in percent
    optionPricing, \* Index: the option quote on display
    priced,       \* observation only: what the latest calculateOptionPrice read and computed
    monteCarloResults, \* Index: the result of the latest simulation, or Null
    returns,      \* optimizePortfolio: the expected returns of its assets
    volatilities, \* optimizePortfolio: the volatilities of its assets
    expectedReturns, \* runBlackLitterman: the prior returns of its assets
    views,        \* runBlackLitterman: the views, a map from some assets to a return
    portfolio,    \* Index: the portfolio summary, with the allocation once optimized
    blackLittermanResults, \* Index: the result of the latest blend, or Null
    toasts,       \* the notifications shown so far, oldest first
    files,        \* the files the user is going to pick, in this order
    uploadedFile, \* FileUploadProcessor: the file picked last, or Null
    isProcessing, \* FileUploadProcessor: an upload is being processed
    progress,     \* FileUploadProcessor: the progress bar, in percent
    fileInfo,     \* FileUploadProcessor: the summary of the latest processed file, or Null
    intervals,    \* the number of progress timers (setInterval) that are running
    reading,      \* the files whose text is awaited (await file.text()), oldest first
    pending,      \* the completions scheduled with setTimeout, oldest first
    customData,   \* Index: the rows of the latest upload
    customFileName, \* Index: the name of the latest upload
    showCustomAnalytics, \* Index: the custom analytics are switched on
    selectedStock, \* Index: the symbol on display
    analytics,    \* what the latest render of CustomDataAnalytics computed, or Null
    analysisResults, \* Index: the analysis of the latest stock selection, or Null
    report,       \* the bundle that the latest exportReport wrote, or Null
    lastTrigger,  \* observation only: the data source the user triggered last
    maxDrawdown   \* calculateMaxDrawdown: the value returned

genVars == <<symbol, days, currentPrice, startDate, now, tz>>
btVars == <<capital, shares, results, lastTrade>>
optVars == <<strikePrice, daysToExpiry, riskFreeRate, volatility, optionPricing, priced>>
simVars == <<monteCarloResults>>
allocVars == <<returns, volatilities, expectedReturns, views, portfolio, blackLittermanResults>>
upVars == <<files, uploadedFile, isProcessing, progress, fileInfo, intervals, reading,
            pending, customData, customFileName, showCustomAnalytics, selectedStock,
            analytics, analysisResults, report, lastTrigger>>
pageVars == <<stockData, optVars, simVars, allocVars, toasts, upVars>>
ddVars == <<maxDrawdown>>
callVars == <<data, i, result, input, rnd, genVars, btVars, ddVars>>
vars == <<pc, data, i, result, input, rnd, genVars, btVars, ddVars, pageVars>>

(***************************************************************************)
(* Exact rational arithmetic standing for the JavaScript number type.      *)
(***************************************************************************)
RECURSIVE GCD(_, _)
GCD(a, b) == IF b = 0 THEN a ELSE GCD(b, a % b)

Abs(a) == IF a < 0 THEN -a ELSE a

\* n/d in lowest terms with a positive denominator (d # 0)
R(n, d) ==
    LET g == GCD(Abs(n), Abs(d))
        s == IF d < 0 THEN -1 ELSE 1
    IN  <<(s * n) \div g, (s * d) \div g>>

Num(n) == <<n, 1>>
Zero == <<0, 1>>
One == <<1, 1>>

LCM(a, b) == (a \div GCD(a, b)) * b

RAdd(x, y) ==
    LET l == LCM(x[2], y[2])
    IN  R(x[1] * (l \div x[2]) + y[1] * (l \div y[2]), l)

RNeg(x) == <<-x[1], x[2]>>
RSub(x, y) == RAdd(x, RNeg(y))

RMul(x, y) ==
    LET g1 == GCD(Abs(x[1]), y[2])
        g2 == GCD(Abs(y[1]), x[2])
        a1 == IF g1 = 0 THEN 1 ELSE g1
        a2 == IF g2 = 0 THEN 1 ELSE g2
    IN  R((x[1] \div a1) * (y[1] \div a2), (x[2] \div a2) * (y[2] \div a1))

\* x / y for y # 0
RDiv(x, y) == RMul(x, R(y[2], y[1]))

RLt(x, y) ==
    LET l == LCM(x[2], y[2])
    IN  x[1] * (l \div x[2]) < y[1] * (l \div y[2])
RLe(x, y) == x = y \/ RLt(x, y)
RGt(x, y) == RLt(y, x)
RGe(x, y) == RLe(y, x)

\* Math.floor
Floor(x) == x[1] \div x[2]

RAbs(x) == <<Abs(x[1]), x[2]>>

(***************************************************************************)
(* StockData points.                                                       *)
(***************************************************************************)
Has(p, f) == f \in DOMAIN p

\* p.f = v : adds the field when absent, overwrites it otherwise
SetField(p, f, v) == [k \in DOMAIN p \cup {f} |-> IF k = f THEN v ELSE p[k]]

\* JavaScript truthiness of an optional numeric field: undefined and 0 are falsy
Truthy(p, f) == Has(p, f) /\ p[f] # Zero

\* data[k] with the source's 0-based index
At(arr, k) == arr[k + 1]

\* the variables of a call that is not running
NoGenerator ==
    /\ symbol = "" /\ days = 0 /\ currentPrice = Zero
    /\ startDate = 0 /\ now = 0 /\ tz = [before |-> 0, after |-> 0, at |-> 0]

\* null
Null == [null |-> TRUE]

\* part_000 21 and 34: the allocators have not run, and their inputs are not drawn
NoAllocator ==
    /\ returns = <<>> /\ volatilities = <<>> /\ expectedReturns = <<>> /\ views = <<>>
    /\ portfolio = [initial |-> Num(10000), current |-> Num(12500), return |-> Num(25)]
    /\ blackLittermanResults = Null

\* undefined
Undefined == [undefined |-> TRUE]

\* part_000 18 and 35-37, CustomDataAnalytics.tsx 327-330: nothing has been
\* uploaded, and no file is going to be
NoUpload ==
    /\ files = <<>>
    /\ uploadedFile = Null /\ isProcessing = FALSE /\ progress = 0 /\ fileInfo = Null
    /\ intervals = 0 /\ reading = <<>> /\ pending = <<>>
    /\ customData = <<>> /\ customFileName = "" /\ showCustomAnalytics = FALSE
    /\ selectedStock = "TSLA"
    /\ analytics = Null
    /\ analysisResults = Null /\ report = Null /\ lastTrigger = "none"

\* the variables of the page while a function of stockAnalytics.ts is run on its own
NoPage ==
    /\ stockData = <<>>
    /\ strikePrice = Zero /\ daysToExpiry = Zero /\ riskFreeRate = Zero
    /\ volatility = Zero /\ optionPricing = [call |-> Zero, put |-> Zero]
    /\ priced = [ran |-> FALSE]
    /\ monteCarloResults = Null
    /\ NoAllocator
    /\ toasts = <<>>
    /\ NoUpload

(***************************************************************************)
(* backtestStrategy (stockAnalytics.ts 189-221).                           *)
(***************************************************************************)
InitialCapital == 10000
BacktestStart == 50

\* line 199: current.ma20 && current.ma50 && prev.ma20 && prev.ma50
HasAverages(current, prev) ==
    /\ Truthy(current, "ma20") /\ Truthy(current, "ma50")
    /\ Truthy(prev, "ma20") /\ Truthy(prev, "ma50")

\* line 201: the buy branch is taken
BuySignal(current, prev, cap) ==
    /\ HasAverages(current, prev)
    /\ RGt(current.ma20, current.ma50)
    /\ RLe(prev.ma20, prev.ma50)
    /\ RGt(cap, Zero)

\* the slip of asking for ma20 strictly above ma50 on the previous day
SellSignalStrict(current, prev, cap, sh) ==
    /\ HasAverages(current, prev)
    /\ ~BuySignal(current, prev, cap)
    /\ RLt(current.ma20, current.ma50)
    /\ RGt(prev.ma20, prev.ma50)
    /\ sh > 0

\* line 206: the sell branch is taken (it is the else of the buy branch)
SellSignal(current, prev, cap, sh) ==
    /\ HasAverages(current, prev)
    /\ ~BuySignal(current, prev, cap)
    /\ RLt(current.ma20, current.ma50)
    /\ RGe(prev.ma20, prev.ma50)
    /\ sh > 0

\* the slip of rounding the share count up instead of down
BuySharesRoundedUp(cap, close) == Floor(RDiv(cap, close)) + 1

\* line 202: Math.floor(capital / current.close)
BuyShares(cap, close) == Floor(RDiv(cap, close))

\* lines 199-210: capital and shares after the day's trading
Trade(current, prev, cap, sh) ==
    IF BuySignal(current, prev, cap)
    THEN LET bought == BuyShares(cap, current.close)
         IN  [kind |-> "buy", shares |-> bought,
              capital |-> RSub(cap, RMul(Num(bought), current.close))]
    ELSE IF SellSignal(current, prev, cap, sh)
    THEN [kind |-> "sell", shares |-> 0,
          capital |-> RAdd(cap, RMul(Num(sh), current.close))]
    ELSE [kind |-> "none", shares |-> sh, capital |-> cap]

\* the slip of subtracting the position instead of adding it
TotalValueSignSlip(cap, sh, close) == RSub(cap, RMul(Num(sh), close))

\* line 212
TotalValue(cap, sh, close) == RAdd(cap, RMul(Num(sh), close))

\* the slip of returning the fraction instead of the percentage
ReturnFraction(totalValue) ==
    RDiv(RSub(totalValue, Num(InitialCapital)), Num(InitialCapital))

\* line 216: ((totalValue - 10000) / 10000) * 100
ReturnPercent(totalValue) ==
    RMul(RDiv(RSub(totalValue, Num(InitialCapital)), Num(InitialCapital)), Num(100))

\* lines 213-217
BacktestRecord(current, totalValue) ==
    [date |-> current.date, value |-> totalValue, return |-> ReturnPercent(totalValue)]

\* one iteration of the loop of lines 194-218
BacktestStep ==
    /\ pc = "backtest"
    /\ i < Len(data)
    /\ LET current == At(data, i)
           prev == At(data, i - 1)
           t == Trade(current, prev, capital, shares)
       IN  /\ capital' = t.capital
           /\ shares' = t.shares
           /\ results' = Append(results,
                  BacktestRecord(current, TotalValue(t.capital, t.shares, current.close)))
           /\ lastTrade' = [kind |-> t.kind, day |-> i,
                            sharesBefore |-> shares, capitalBefore |-> capital]
    /\ i' = i + 1
    /\ UNCHANGED <<pc, data, result, input, rnd, genVars, pageVars, ddVars>>

\* line 220: the loop is over, results is returned
BacktestReturn ==
    /\ pc = "backtest"
    /\ ~(i < Len(data))
    /\ pc' = "backtestDone"
    /\ UNCHANGED <<data, i, result, input, rnd, genVars, btVars, pageVars, ddVars>>

(***************************************************************************)
(* The series handed to backtestStrategy: any length up to                 *)
(* BacktestStart + MaxDays; the points the loop reads (index 49 on) carry  *)
(* any close and ma20/ma50 pair of BTInputs.                               *)
(***************************************************************************)
MaxDays == 3

\* <<close, <<ma20, ma50>>>> of a point the loop reads; <<>> stands for a
\* point without the two fields
BTInputs ==
    { <<Num(3000), <<Num(1), Num(2)>>>>,
      <<Num(3000), <<Num(2), Num(2)>>>>,
      <<Num(3000), <<Num(3), Num(2)>>>>,
      <<R(7001, 2), <<Num(1), Num(2)>>>>,
      <<R(7001, 2), <<Num(3), Num(2)>>>>,
      <<Num(3000), <<>>>> }

BasePoint(k, close) ==
    [date |-> k, open |-> close, high |-> close, low |-> close,
     close |-> close, volume |-> Num(1000000)]

BTPoint(k, close, avg) ==
    IF avg = <<>> THEN BasePoint(k, close)
    ELSE SetField(SetField(BasePoint(k, close), "ma20", avg[1]), "ma50", avg[2])

\* the series of length n whose points from index 49 on are given by tail
BTSeries(n, tail) ==
    [k \in 1..n |->
        IF k < BacktestStart THEN BasePoint(k - 1, Num(3000))
        ELSE BTPoint(k - 1, tail[k - BacktestStart + 1][1], tail[k - BacktestStart + 1][2])]

\* the number of points of a series of length n that the loop can read
TailLen(n) == IF n < BacktestStart THEN 0 ELSE n - BacktestStart + 1

NoTrade == [kind |-> "none", day |-> -1, sharesBefore |-> 0, capitalBefore |-> Zero]

NoBacktest ==
    /\ capital = Zero /\ shares = 0 /\ results = <<>> /\ lastTrade = NoTrade
    /\ maxDrawdown = Zero

InitBacktest ==
    /\ pc = "backtest"
    /\ \E n \in 0..(BacktestStart + MaxDays) :
         \E tail \in [1..TailLen(n) -> BTInputs] : data = BTSeries(n, tail)
    /\ input = data
    /\ result = <<>>
    /\ rnd = <<>>
    /\ NoGenerator
    /\ i = BacktestStart
    /\ capital = Num(InitialCapital)
    /\ shares = 0
    /\ results = <<>>
    /\ lastTrade = NoTrade
    /\ maxDrawdown = Zero
    /\ NoPage

NextBacktest == BacktestStep \/ BacktestReturn

SpecBacktest == InitBacktest /\ [][NextBacktest]_vars

(***************************************************************************)
(* calculateTechnicalIndicators (stockAnalytics.ts 76-145).                *)
(***************************************************************************)
Min(a, b) == IF a < b THEN a ELSE b
Max(a, b) == IF a > b THEN a ELSE b

\* Array.prototype.slice(a, b): 0-based, b exclusive, negative indices count from the end
Slice(arr, a, b) ==
    LET len == Len(arr)
        from == IF a < 0 THEN Max(len + a, 0) ELSE Min(a, len)
        to == IF b < 0 THEN Max(len + b, 0) ELSE Min(b, len)
    IN  SubSeq(arr, from + 1, to)

\* the sum of close over seq[lo..hi]; the sum is exact, so the order in which
\* the terms are added does not matter, and the range is halved to keep the
\* evaluation shallow
RECURSIVE SumCloseRange(_, _, _)
SumCloseRange(arr, lo, hi) ==
    IF lo > hi THEN Zero
    ELSE IF lo = hi THEN arr[lo].close
    ELSE LET mid == (lo + hi) \div 2
         IN  RAdd(SumCloseRange(arr, lo, mid), SumCloseRange(arr, mid + 1, hi))

\* reduce((sum, item) => sum + item.close, 0)
SumClose(seq) == SumCloseRange(seq, 1, Len(seq))

\* result[i].f = v
Assign(res, k, f, v) == [res EXCEPT ![k + 1] = SetField(@, f, v)]

\* the slip of a window that ends one point early
MovingAverageShifted(res, k, period) ==
    RDiv(SumClose(Slice(res, k - period, k)), Num(period))

\* lines 83-84 and 89-90: the mean of close over slice(i - (period - 1), i + 1)
MovingAverage(res, k, period) ==
    RDiv(SumClose(Slice(res, k - (period - 1), k + 1)), Num(period))

\* line 99: result[j].close - result[j - 1].close
Change(arr, j) == RSub(At(arr, j).close, At(arr, j - 1).close)

\* lines 100-101: what index j adds to gains, and what it adds to losses
Gain(arr, j) == IF RGt(Change(arr, j), Zero) THEN Change(arr, j) ELSE Zero
Loss(arr, j) == IF RGt(Change(arr, j), Zero) THEN Zero ELSE RAbs(Change(arr, j))

\* lines 98-105: the sum of the gains over j = from .. to (the range is halved
\* to keep the evaluation shallow; the sum is exact)
RECURSIVE SumGains(_, _, _)
SumGains(arr, from, to) ==
    IF from > to THEN Zero
    ELSE IF from = to THEN Gain(arr, from)
    ELSE LET mid == (from + to) \div 2
         IN  RAdd(SumGains(arr, from, mid), SumGains(arr, mid + 1, to))

\* lines 98-105: the sum of the losses over j = from .. to
RECURSIVE SumLosses(_, _, _)
SumLosses(arr, from, to) ==
    IF from > to THEN Zero
    ELSE IF from = to THEN Loss(arr, from)
    ELSE LET mid == (from + to) \div 2
         IN  RAdd(SumLosses(arr, from, mid), SumLosses(arr, mid + 1, to))

\* the slip of leaving out the parentheses: 100 - (100 / 1 + rs)
RsiValueNoParentheses(rs) == RSub(Num(100), RAdd(RDiv(Num(100), One), rs))

\* line 107: 100 - (100 / (1 + rs))
RsiValue(rs) == RSub(Num(100), RDiv(Num(100), RAdd(One, rs)))

\* lines 104-107
Rsi(res, k) ==
    LET avgGain == RDiv(SumGains(res, k - 13, k), Num(14))
        avgLoss == RDiv(SumLosses(res, k - 13, k), Num(14))
        rs == RDiv(avgGain, IF avgLoss = Zero THEN One ELSE avgLoss)
    IN  RsiValue(rs)

\* calculateEMA (lines 147-156).  The value has a denominator of
\* (period+1)^(length-1); it is kept as the term "the EMA of this period over
\* a prefix of this length".
CalculateEMA(seq, period) == [ema |-> period, over |-> Len(seq)]

\* lines 112-114: ema12 - ema26, as a term
Macd(res, k) ==
    [minus |-> <<CalculateEMA(Slice(res, 0, k + 1), 12),
                 CalculateEMA(Slice(res, 0, k + 1), 26)>>]

\* lines 117-118: the mean of the nine values item.macd || 0, as a term
MacdSignal(res, k) ==
    LET window == Slice(res, k - 8, k + 1)
    IN  [mean9 |-> [j \in 1..Len(window) |->
                       IF Has(window[j], "macd") THEN window[j].macd ELSE Zero]]

\* line 126
Sma(slice, period) == RDiv(SumClose(slice), Num(period))

\* line 127: the population variance of close over the slice
RECURSIVE SumSquaresRange(_, _, _, _)
SumSquaresRange(arr, sma, lo, hi) ==
    IF lo > hi THEN Zero
    ELSE IF lo = hi THEN RMul(RSub(arr[lo].close, sma), RSub(arr[lo].close, sma))
    ELSE LET mid == (lo + hi) \div 2
         IN  RAdd(SumSquaresRange(arr, sma, lo, mid), SumSquaresRange(arr, sma, mid + 1, hi))

\* reduce((sum, item) => sum + Math.pow(item.close - sma, 2), 0)
SumSquares(seq, mean) == SumSquaresRange(seq, mean, 1, Len(seq))

Variance(slice, period) == RDiv(SumSquares(slice, Sma(slice, period)), Num(period))

\* lines 128-131: sma + 2*sqrt(variance) and sma - 2*sqrt(variance); the
\* square root is kept as a term
UpperBB(slice, period) == [mid |-> Sma(slice, period), sign |-> 1, variance |-> Variance(slice, period)]
LowerBB(slice, period) == [mid |-> Sma(slice, period), sign |-> -1, variance |-> Variance(slice, period)]

\* the thresholds of lines 82, 88, 94, 111, 116, 123
Ma20Defined(k) == k >= 19
Ma50Defined(k) == k >= 49
RsiDefined(k) == k >= 14
MacdDefined(k) == k >= 26
\* the slip of an off-by-one threshold
SignalDefinedLate(k) == k > 34
SignalDefined(k) == k >= 34
BandsDefined(k) == k >= 19

\* the draw of the tape that index k uses for its overlays
Draw(tape, k) == tape[(k % Len(tape)) + 1]

\* the slip of writing the overlay into close
OverlaysIntoClose(res, k, q) ==
    Assign(res, k, "close", RMul(At(res, k).close, RAdd(One, RMul(q.portfolio, R(1, 10)))))

\* lines 135-141: portfolio, benchmark and, when the coin is above 0.5, prediction
Overlays(res, k, q) ==
    LET r1 == Assign(res, k, "portfolio",
                     RMul(At(res, k).close, RAdd(One, RMul(q.portfolio, R(1, 10)))))
        r2 == Assign(r1, k, "benchmark",
                     RMul(At(r1, k).close, RAdd(One, RMul(q.benchmark, R(1, 20)))))
    IN  IF RGt(q.coin, R(1, 2))
        THEN Assign(r2, k, "prediction",
                    RMul(At(r2, k).close,
                         RAdd(One, RMul(RSub(q.prediction, R(1, 2)), R(1, 10)))))
        ELSE r2

\* the element of a set of one element: names a value that is computed once
TheOne(S) == CHOOSE x \in S : TRUE

\* lines 80-142: the loop body at index k, every assignment made in place,
\* each on the outcome of the one before
AnnotateAt(res, k, q) ==
    LET Ma20(r) == IF Ma20Defined(k) THEN Assign(r, k, "ma20", MovingAverage(r, k, 20)) ELSE r
        Ma50(r) == IF Ma50Defined(k) THEN Assign(r, k, "ma50", MovingAverage(r, k, 50)) ELSE r
        Rsi14(r) == IF RsiDefined(k) THEN Assign(r, k, "rsi", Rsi(r, k)) ELSE r
        MacdLine(r) == IF MacdDefined(k) THEN Assign(r, k, "macd", Macd(r, k)) ELSE r
        Signal(r) == IF MacdDefined(k) /\ SignalDefined(k)
                     THEN Assign(r, k, "macdSignal", MacdSignal(r, k)) ELSE r
        Bands(r) == IF BandsDefined(k)
                    THEN TheOne({Assign(Assign(r, k, "upperBB", UpperBB(sl, 20)),
                                        k, "lowerBB", LowerBB(sl, 20)) :
                                    sl \in {Slice(r, k - 20 + 1, k + 1)}})
                    ELSE r
    IN  TheOne({Overlays(r6, k, q) :
                  r6 \in {Bands(r5) : r5 \in {Signal(r4) : r4 \in {MacdLine(r3) : r3 \in
                            {Rsi14(r2) : r2 \in {Ma50(r1) : r1 \in {Ma20(res)}}}}}}})

\* line 77: const result = [...data]
AnnotateEnter ==
    /\ pc = "annotateCall"
    /\ result' = data
    /\ i' = 0
    /\ pc' = "annotate"
    /\ UNCHANGED <<data, input, rnd, genVars, btVars, pageVars, ddVars>>

\* one iteration of the loop of lines 80-142; the points of result are the
\* points of data, so data sees every field that is set
AnnotateStep ==
    /\ pc = "annotate"
    /\ i < Len(result)
    /\ result' = AnnotateAt(result, i, Draw(rnd, i))
    /\ data' = result'
    /\ i' = i + 1
    /\ UNCHANGED <<pc, input, rnd, genVars, btVars, pageVars, ddVars>>

\* line 144
AnnotateReturn ==
    /\ pc = "annotate"
    /\ ~(i < Len(result))
    /\ pc' = "annotateDone"
    /\ UNCHANGED <<data, i, result, input, rnd, genVars, btVars, pageVars, ddVars>>

(***************************************************************************)
(* The series handed to calculateTechnicalIndicators: any length up to     *)
(* MaxLen, the closes following one of a few shapes, no indicator field.   *)
(***************************************************************************)
MaxLen == 51

CloseShapes == {"flat", "rising", "falling", "zigzag", "step", "halves"}

ShapeClose(shape, k) ==
    CASE shape = "flat" -> Num(100)
      [] shape = "rising" -> Num(100 + k)
      [] shape = "falling" -> Num(300 - 3 * k)
      [] shape = "zigzag" -> Num(100 + 7 * (k % 3) - 2 * (k % 5))
      [] shape = "step" -> IF k < 25 THEN Num(80) ELSE Num(131)
      [] shape = "halves" -> R(101 + (k % 4) * (k % 7), 2)

ShapeSeries(shape, n) == [k \in 1..n |-> BasePoint(k - 1, ShapeClose(shape, k - 1))]

NoOverlay == [portfolio |-> Zero, benchmark |-> Zero, coin |-> Zero, prediction |-> Zero]
HalfOverlay == [portfolio |-> R(1, 2), benchmark |-> R(1, 2), coin |-> R(3, 4), prediction |-> R(1, 2)]

IndicatorTapes == {<<NoOverlay>>, <<HalfOverlay, NoOverlay>>}

InitIndicators ==
    /\ pc = "annotateCall"
    /\ \E n \in 0..MaxLen : \E shape \in CloseShapes : data = ShapeSeries(shape, n)
    /\ input = data
    /\ rnd \in IndicatorTapes
    /\ i = 0
    /\ result = <<>>
    /\ NoGenerator
    /\ NoBacktest
    /\ NoPage

NextIndicators == AnnotateEnter \/ AnnotateStep \/ AnnotateReturn

SpecIndicators == InitIndicators /\ [][NextIndicators]_vars

(***************************************************************************)
(* Properties of backtestStrategy.                                         *)
(***************************************************************************)
PositiveCloses == \A k \in 1..Len(data) : RGt(data[k].close, Zero)

\* C1: over a series with positive closes, every record of the trace has
\* value >= 0.
C1_ValueNeverNegative ==
    (pc \in {"backtest", "backtestDone"} /\ PositiveCloses)
        => \A k \in 1..Len(results) : RGe(results[k].value, Zero)

\* C1 witness: the call has returned a trace that holds a loss (a value
\* below the initial capital) while shares are held.
C1_Witness ==
    /\ pc = "backtestDone"
    /\ PositiveCloses
    /\ shares > 0
    /\ \E k \in 1..Len(results) : RLt(results[k].value, Num(10000))

GoldenCross(k) ==
    /\ Has(At(data, k), "ma20") /\ Has(At(data, k), "ma50")
    /\ Has(At(data, k - 1), "ma20") /\ Has(At(data, k - 1), "ma50")
    /\ RGt(At(data, k).ma20, At(data, k).ma50)
    /\ RLe(At(data, k - 1).ma20, At(data, k - 1).ma50)

\* C2: a buy is executed only on a golden cross and only while no shares
\* are held (the full capital is available); it acquires floor(capital/close)
\* shares and reduces capital by shares*close.  So no buy follows a buy
\* without a full liquidation between them.
C2_BuyOnlyWithoutPosition ==
    (pc \in {"backtest", "backtestDone"} /\ lastTrade.kind = "buy")
        => /\ GoldenCross(lastTrade.day)
           /\ lastTrade.sharesBefore = 0
           /\ Num(shares) = Num(Floor(RDiv(lastTrade.capitalBefore,
                                           At(data, lastTrade.day).close)))
           /\ capital = RSub(lastTrade.capitalBefore,
                             RMul(Num(shares), At(data, lastTrade.day).close))

\* C3: for a series of length n >= 50 the trace has exactly n - 50 records,
\* the k-th being that of index 50 + k - 1: it carries that point's date and
\* return = (value - 10000) / 10000 * 100.
C3_TraceShape ==
    (pc = "backtestDone" /\ Len(data) >= 50)
        => /\ Len(results) = Len(data) - 50
           /\ \A k \in 1..Len(results) :
                 /\ results[k].date = At(data, 50 + k - 1).date
                 /\ RMul(results[k].return, Num(100))
                        = RSub(results[k].value, Num(10000))

\* C3 witness: a returned trace of three records whose values differ from
\* the initial capital.
C3_Witness ==
    /\ pc = "backtestDone"
    /\ Len(data) = 53
    /\ Len(results) = 3
    /\ results[3].value # Num(10000)
    /\ results[3].return # Zero

\* C4: at every step shares is a non-negative whole number and capital is
\* non-negative.
C4_NoShortNoOverdraft ==
    (pc \in {"backtest", "backtestDone"} /\ PositiveCloses)
        => /\ shares \in Nat
           /\ RGe(capital, Zero)

\* C4 witness: shares have been bought with cash left over.
C4_Witness ==
    /\ pc = "backtest"
    /\ lastTrade.kind = "buy"
    /\ shares > 0
    /\ RGt(capital, Zero)
    /\ RLt(capital, Num(10000))

(***************************************************************************)
(* Properties of calculateTechnicalIndicators.                             *)
(***************************************************************************)
BaseFields == {"date", "open", "high", "low", "close", "volume"}

\* the series handed in carries no indicator field
InputBare == \A k \in 1..Len(input) : DOMAIN input[k] = BaseFields

\* C5: after the call, on a series that carried no indicator field, index k
\* has ma20, upperBB and lowerBB iff k >= 19, ma50 iff k >= 49, rsi iff
\* k >= 14, macd iff k >= 26 and macdSignal iff k >= 34; below its threshold
\* a field is absent.
C5_FieldPresence ==
    (pc = "annotateDone" /\ InputBare)
        => \A k \in 0..(Len(result) - 1) :
              LET p == At(result, k)
              IN  /\ Has(p, "ma20") <=> k >= 19
                  /\ Has(p, "upperBB") <=> k >= 19
                  /\ Has(p, "lowerBB") <=> k >= 19
                  /\ Has(p, "ma50") <=> k >= 49
                  /\ Has(p, "rsi") <=> k >= 14
                  /\ Has(p, "macd") <=> k >= 26
                  /\ Has(p, "macdSignal") <=> k >= 34

\* C5 witness: the call has returned a series long enough to cross every threshold.
C5_Witness ==
    /\ pc = "annotateDone"
    /\ InputBare
    /\ Len(result) >= 50
    /\ Has(At(result, 49), "ma50")
    /\ ~Has(At(result, 48), "ma50")

\* the sum of the closes handed in over the indices a..b
RECURSIVE InputCloseSum(_, _)
InputCloseSum(a, b) ==
    IF a > b THEN Zero
    ELSE IF a = b THEN At(input, a).close
    ELSE RAdd(InputCloseSum(a, a + (b - a) \div 2), InputCloseSum(a + (b - a) \div 2 + 1, b))

\* C6: for every index k already computed, ma20[k] is the mean of close over
\* k-19..k when k >= 19 and is undefined before; ma50[k] is the mean of
\* close over k-49..k when k >= 49.  Only points up to k enter the value.
C6_MovingAverages ==
    (pc \in {"annotate", "annotateDone"} /\ InputBare)
        => \A k \in 0..(i - 1) :
              LET p == At(result, k)
              IN  /\ k >= 19 => /\ Has(p, "ma20")
                                /\ RMul(p.ma20, Num(20)) = InputCloseSum(k - 19, k)
                  /\ k < 19 => ~Has(p, "ma20")
                  /\ k >= 49 => /\ Has(p, "ma50")
                                /\ RMul(p.ma50, Num(50)) = InputCloseSum(k - 49, k)

\* C6 witness: both averages have been computed over windows whose closes
\* differ, and they differ from each other.
C6_Witness ==
    /\ pc = "annotateDone"
    /\ Len(result) >= 51
    /\ At(input, 30).close # At(input, 50).close
    /\ At(result, 50).ma20 # At(result, 50).ma50
    /\ At(result, 50).ma20 # At(result, 49).ma20

\* C7: over a series with positive closes, every rsi computed lies in [0, 100].
C7_RsiRange ==
    (pc \in {"annotate", "annotateDone"}
        /\ \A k \in 1..Len(input) : RGt(input[k].close, Zero))
        => \A k \in 0..(i - 1) :
              k >= 14 => /\ RGe(At(result, k).rsi, Zero)
                         /\ RLe(At(result, k).rsi, Num(100))

\* C7 witness: one rsi was computed over a window with a gain and without a
\* loss (average loss 0), another over a window without a gain.
C7_Witness ==
    /\ pc = "annotateDone"
    /\ \A k \in 1..Len(input) : RGt(input[k].close, Zero)
    /\ \E k \in 14..(Len(result) - 1) :
          /\ \A j \in (k - 13)..k : RGe(At(input, j).close, At(input, j - 1).close)
          /\ RGt(At(result, k).rsi, Num(50))
          /\ RLt(At(result, k).rsi, Num(100))
    /\ \E k \in 14..(Len(result) - 1) :
          /\ \A j \in (k - 13)..k : RLe(At(input, j).close, At(input, j - 1).close)
          /\ At(result, k).rsi = Zero

\* C8: the series returned has the length and the order of the series handed
\* in; date, open, high, low, close and volume of every point are unchanged,
\* and fields are only added.
C8_FrameOfAnnotate ==
    (pc \in {"annotate", "annotateDone"})
        => /\ Len(result) = Len(input)
           /\ \A k \in 1..Len(input) :
                 /\ DOMAIN input[k] \subseteq DOMAIN result[k]
                 /\ \A f \in BaseFields : result[k][f] = input[k][f]

\* C8 witness: the call has returned a series to which fields were added.
C8_Witness ==
    /\ pc = "annotateDone"
    /\ Len(result) >= 21
    /\ Has(At(result, 20), "ma20")
    /\ Has(At(result, 20), "portfolio")
    /\ At(result, 20).portfolio # At(result, 20).close

(***************************************************************************)
(* generateMockStockData (stockAnalytics.ts 23-58).                        *)
(*                                                                         *)
(* A Date is an instant, counted in hours of UTC.  The runtime's time zone *)
(* has the offset tz.before (hours east of UTC) up to the instant tz.at    *)
(* and tz.after from it on.  getDate/setDate work on the local calendar,   *)
(* toISOString on the UTC calendar.                                        *)
(***************************************************************************)
Offset(zone, t) == IF t < zone.at THEN zone.before ELSE zone.after

\* the local wall-clock time of an instant, in hours
LocalTime(zone, t) == t + Offset(zone, t)

\* the instant of a local wall-clock time: an ambiguous time is the earlier
\* instant, a skipped time is read with the offset before the transition
UTC(zone, local) ==
    IF local - zone.before < zone.at THEN local - zone.before
    ELSE IF local - zone.after >= zone.at THEN local - zone.after
    ELSE local - zone.before

\* d.setDate(d.getDate() + delta): the local day moves, the local time of day stays
SetDateBy(zone, t, delta) == UTC(zone, LocalTime(zone, t) + 24 * delta)

\* d.toISOString().split('T')[0]: the UTC calendar day of the instant
IsoDate(zone, t) == t \div 24

\* lines 60-74
GetBasePriceForSymbol(sym) ==
    CASE sym = "TSLA" -> Num(250)
      [] sym = "AAPL" -> Num(180)
      [] sym = "GOOGL" -> Num(140)
      [] sym = "MSFT" -> Num(350)
      [] sym = "AMZN" -> Num(145)
      [] sym = "NVDA" -> Num(450)
      [] sym = "META" -> Num(280)
      [] sym = "BTC-USD" -> Num(45000)
      [] sym = "CUSTOM" -> Num(100)
      [] sym = "FORECAST" -> Num(250)
      [] OTHER -> Num(100)

\* lines 36-39: volatility 0.02, drift 0.0002
NextPrice(price, u) ==
    RMul(price, RAdd(RAdd(One, R(2, 10000)), RMul(RSub(u, R(1, 2)), R(2, 100))))

\* line 41
HighOf(price, u) == RMul(price, RAdd(One, RMul(u, R(2, 100))))

\* line 42
LowOf(price, u) == RMul(price, RSub(One, RMul(u, R(2, 100))))

\* the slip of starting from high instead of low
BetweenFromHigh(low, high, u) == RAdd(high, RMul(u, RSub(high, low)))

\* lines 43-44: low + Math.random() * (high - low)
Between(low, high, u) == RAdd(low, RMul(u, RSub(high, low)))

\* line 45
VolumeOf(u) == Num(Floor(RMul(u, Num(10000000))) + 1000000)

\* lines 32-54: the point of index k, q being the six draws of the iteration
MockPoint(zone, start, price, k, q) ==
    LET date == SetDateBy(zone, start, k)
        high == HighOf(price, q.high)
        low == LowOf(price, q.low)
    IN  [date |-> IsoDate(zone, date),
         open |-> Between(low, high, q.open),
         high |-> high,
         low |-> low,
         close |-> Between(low, high, q.close),
         volume |-> VolumeOf(q.volume)]

\* the draws of Math.random() in one iteration (lines 38, 41-45)
DayDraws ==
    { [change |-> R(49, 100), high |-> Zero, low |-> Zero,
       open |-> Zero, close |-> Zero, volume |-> Zero],
      [change |-> R(99, 100), high |-> R(1, 2), low |-> R(1, 2),
       open |-> R(1, 2), close |-> Zero, volume |-> R(1, 2)],
      [change |-> R(24, 100), high |-> R(1, 2), low |-> Zero,
       open |-> Zero, close |-> R(1, 2), volume |-> Zero],
      [change |-> R(24, 100), high |-> Zero, low |-> R(1, 2),
       open |-> R(1, 2), close |-> R(1, 2), volume |-> R(1, 2)] }

\* lines 24-29
GenerateEnter ==
    /\ pc = "generateCall"
    /\ data' = <<>>
    /\ currentPrice' = GetBasePriceForSymbol(symbol)
    /\ startDate' = SetDateBy(tz, now, -days)
    /\ i' = 0
    /\ pc' = "generate"
    /\ UNCHANGED <<result, input, rnd, symbol, days, now, tz, btVars, pageVars, ddVars>>

\* one iteration of the loop of lines 31-55
GenerateStep ==
    /\ pc = "generate"
    /\ i < days
    /\ \E q \in DayDraws :
          /\ currentPrice' = NextPrice(currentPrice, q.change)
          /\ data' = Append(data, MockPoint(tz, startDate, currentPrice', i, q))
    /\ i' = i + 1
    /\ UNCHANGED <<pc, result, input, rnd, symbol, days, startDate, now, tz, btVars, pageVars, ddVars>>

\* line 57: the loop is over, calculateTechnicalIndicators(data) is called
\* and its result is what generateMockStockData returns
GenerateAnnotate ==
    /\ pc = "generate"
    /\ ~(i < days)
    /\ input' = data
    /\ pc' = "annotateCall"
    /\ UNCHANGED <<data, i, result, rnd, genVars, btVars, pageVars, ddVars>>

(***************************************************************************)
(* The calls of generateMockStockData: a known and an unknown symbol, up   *)
(* to MaxGenDays days, at any hour of one day, in a zone without a         *)
(* transition and in zones whose offset changed the day before.            *)
(***************************************************************************)
MaxGenDays == 2

GenSymbols == {"TSLA", "XYZ"}

\* the hour count of the local midnight that starts "today" in UTC
Today == 10 * 24

TimeZones ==
    { [before |-> 0, after |-> 0, at |-> 0],
      [before |-> 1, after |-> 2, at |-> Today - 24 + 1],
      [before |-> 2, after |-> 1, at |-> Today - 24 + 1],
      [before |-> -5, after |-> -4, at |-> Today - 24 + 7] }

\* the overlays of the trailing calculateTechnicalIndicators call
PlainOverlay == [portfolio |-> Zero, benchmark |-> Zero, coin |-> R(3, 4), prediction |-> R(1, 2)]

InitGenerate ==
    /\ pc = "generateCall"
    /\ symbol \in GenSymbols
    /\ days \in 1..MaxGenDays
    /\ now \in Today..(Today + 23)
    /\ tz \in TimeZones
    /\ currentPrice = Zero
    /\ startDate = 0
    /\ data = <<>>
    /\ input = <<>>
    /\ result = <<>>
    /\ i = 0
    /\ rnd = <<PlainOverlay, NoOverlay>>
    /\ NoBacktest
    /\ NoPage

NextGenerate ==
    \/ GenerateEnter
    \/ GenerateStep
    \/ GenerateAnnotate
    \/ AnnotateEnter
    \/ AnnotateStep
    \/ AnnotateReturn

SpecGenerate == InitGenerate /\ [][NextGenerate]_vars

(***************************************************************************)
(* Properties of generateMockStockData.                                    *)
(***************************************************************************)
\* C9: for every d > 0 and every symbol the call returns exactly d points
\* whose dates increase by exactly one calendar day from each point to the
\* next.
C9_ConsecutiveDates ==
    (pc = "annotateDone" /\ days > 0)
        => /\ Len(result) = days
           /\ \A k \in 1..(Len(result) - 1) : result[k + 1].date = result[k].date + 1

\* C10: every point produced has high >= low, open and close within
\* [low, high], and open, high, low and close strictly positive.
C10_PriceBounds ==
    (pc \in {"generate", "annotateCall", "annotate", "annotateDone"})
        => \A k \in 1..Len(data) :
              LET p == data[k]
              IN  /\ RGe(p.high, p.low)
                  /\ RLe(p.low, p.open) /\ RLe(p.open, p.high)
                  /\ RLe(p.low, p.close) /\ RLe(p.close, p.high)
                  /\ RGt(p.open, Zero) /\ RGt(p.high, Zero)
                  /\ RGt(p.low, Zero) /\ RGt(p.close, Zero)

\* C10 witness: the call has returned a point whose open lies strictly
\* between low and high and whose close is its low.
C10_Witness ==
    /\ pc = "annotateDone"
    /\ Len(result) = days
    /\ \E k \in 1..Len(result) :
          /\ RLt(result[k].low, result[k].open)
          /\ RLt(result[k].open, result[k].high)
          /\ result[k].close = result[k].low

(***************************************************************************)
(* The JavaScript numbers that are not finite.  A number is <<n, d>>:      *)
(* d > 0 for the finite n/d, NaN is <<0, 0>>, Infinity <<1, 0>> and        *)
(* -Infinity <<-1, 0>>.  Zero is +0.                                       *)
(***************************************************************************)
NaN == <<0, 0>>
PosInf == <<1, 0>>
NegInf == <<-1, 0>>

IsNaN(x) == x = NaN
Finite(x) == x[2] # 0

\* -1, 0 or 1 for a number that is not NaN
SignOf(x) == IF x[1] < 0 THEN -1 ELSE IF x[1] > 0 THEN 1 ELSE 0

\* x + y
XAdd(x, y) ==
    IF IsNaN(x) \/ IsNaN(y) THEN NaN
    ELSE IF Finite(x) /\ Finite(y) THEN RAdd(x, y)
    ELSE IF Finite(x) THEN y
    ELSE IF Finite(y) THEN x
    ELSE IF x = y THEN x ELSE NaN

\* x - y
XSub(x, y) == XAdd(x, <<-y[1], y[2]>>)

\* x * y
XMul(x, y) ==
    IF IsNaN(x) \/ IsNaN(y) THEN NaN
    ELSE IF Finite(x) /\ Finite(y) THEN RMul(x, y)
    ELSE IF SignOf(x) * SignOf(y) = 0 THEN NaN
    ELSE <<SignOf(x) * SignOf(y), 0>>

\* x / y
XDiv(x, y) ==
    IF IsNaN(x) \/ IsNaN(y) THEN NaN
    ELSE IF Finite(y) /\ y # Zero
         THEN IF Finite(x) THEN RDiv(x, y) ELSE <<SignOf(x) * SignOf(y), 0>>
    ELSE IF y = Zero
         THEN IF x = Zero THEN NaN ELSE <<SignOf(x), 0>>
    ELSE IF Finite(x) THEN Zero ELSE NaN

\* x < y: false when either is NaN
XLt(x, y) ==
    /\ ~IsNaN(x) /\ ~IsNaN(y)
    /\ x # y
    /\ IF Finite(x) /\ Finite(y) THEN RLt(x, y)
       ELSE IF Finite(x) THEN y = PosInf
       ELSE x = NegInf

\* x >= y: false when either is NaN
XGe(x, y) == ~IsNaN(x) /\ ~IsNaN(y) /\ ~XLt(x, y)

\* Math.max(x, y): NaN when either is NaN
XMax(x, y) ==
    IF IsNaN(x) \/ IsNaN(y) THEN NaN ELSE IF XLt(x, y) THEN y ELSE x

(***************************************************************************)
(* Math.log, Math.exp and Math.sqrt.  Where the result is rational, or one *)
(* of the values that are not finite, it is that result.  Elsewhere the    *)
(* result is a double the model does not compute: it is any element of a   *)
(* small set of values of the range the function has there.                *)
(***************************************************************************)
\* Math.sqrt(x): exact for a square; between the harmonic and the arithmetic
\* mean of 1 and x otherwise
SqrtOf(x) ==
    LET WholeRoot(n) == CHOOSE k \in 0..n : k * k <= n /\ (k + 1) * (k + 1) > n
        IsSquare(n) == WholeRoot(n) * WholeRoot(n) = n
    IN  IF IsNaN(x) \/ SignOf(x) < 0 THEN {NaN}
        ELSE IF ~Finite(x) THEN {PosInf}
        ELSE IF IsSquare(x[1]) /\ IsSquare(x[2]) THEN {R(WholeRoot(x[1]), WholeRoot(x[2]))}
        ELSE {RDiv(RMul(Num(2), x), RAdd(x, One)), RDiv(RAdd(x, One), Num(2))}

\* Math.log(x): 0 at 1, negative below 1, positive above
LogOf(x) ==
    IF IsNaN(x) \/ SignOf(x) < 0 THEN {NaN}
    ELSE IF x = Zero THEN {NegInf}
    ELSE IF ~Finite(x) THEN {PosInf}
    ELSE IF x = One THEN {Zero}
    ELSE IF RLt(x, One) THEN {R(-1, 3), R(-7, 3)}
    ELSE {R(1, 3), R(7, 3)}

\* Math.exp(y): 1 at 0, within (0, 1) below 0, above 1 above 0
ExpOf(y) ==
    IF IsNaN(y) THEN {NaN}
    ELSE IF y = NegInf THEN {Zero}
    ELSE IF y = PosInf THEN {PosInf}
    ELSE IF y = Zero THEN {One}
    ELSE IF SignOf(y) < 0 THEN {R(1, 4), R(3, 4)}
    ELSE {R(5, 4), Num(4)}

(***************************************************************************)
(* calculateOptionPrice (part_000 103-143) and the option form.            *)
(***************************************************************************)
\* line 104: stockData[stockData.length - 1]?.close || strikePrice (0 and
\* NaN are falsy)
SpotOf(series, strike) ==
    IF Len(series) > 0 /\ Has(series[Len(series)], "close")
          /\ series[Len(series)].close # Zero /\ ~IsNaN(series[Len(series)].close)
    THEN series[Len(series)].close
    ELSE strike

\* -2 * x * x / Math.PI (line 116): 0 for x = 0, -Infinity for an infinite
\* x, NaN for NaN, a negative double otherwise; Math.exp is modelled by the
\* range of its argument, so one negative value stands for them all
GaussExponent(x) ==
    IF IsNaN(x) THEN NaN
    ELSE IF ~Finite(x) THEN NegInf
    ELSE IF x = Zero THEN Zero
    ELSE Num(-1)

\* line 116: 0.5 * (1 + Math.sign(x) * root), root being
\* Math.sqrt(1 - Math.exp(-2 * x * x / Math.PI))
NormCDF(x, root) ==
    XMul(R(1, 2), XAdd(One, XMul(IF IsNaN(x) THEN NaN ELSE Num(SignOf(x)), root)))

\* line 112, lnSK being Math.log(S / K) and sqrtT Math.sqrt(T)
D1(lnSK, r, sigma, T, sqrtT) ==
    XDiv(XAdd(lnSK, XMul(XAdd(r, XMul(XMul(R(1, 2), sigma), sigma)), T)),
         XMul(sigma, sqrtT))


\* lines 122-131
AdjustedCall(callPrice, S, K, sigma, T) ==
    LET timeDecayFactor == XMax(R(1, 10), T)
        volatilityPremium == XMul(XMul(sigma, S), R(1, 10))
        moneynessFactor == XDiv(<<Abs(XSub(S, K)[1]), XSub(S, K)[2]>>, K)
    IN  IF XLt(K, S)
        THEN XAdd(callPrice, XMul(volatilityPremium, XAdd(One, moneynessFactor)))
        ELSE XMax(callPrice, XMul(XMul(XMul(timeDecayFactor, sigma), S), R(1, 20)))

\* the minimum of lines 134, 140 and 141
Tick == R(1, 100)

\* the handler of the Calculate button (lines 103-143).  The same call of a
\* Math function on the same argument yields the same value.
CalculateOptionPrice ==
    /\ pc = "page"
    /\ LET S == SpotOf(stockData, strikePrice)
           K == strikePrice
           T == XDiv(daysToExpiry, Num(365))
           r == XDiv(riskFreeRate, Num(100))
           sigma == XDiv(volatility, Num(100))
       IN  \E lnSK \in LogOf(XDiv(S, K)), sqrtT \in SqrtOf(T),
              disc \in ExpOf(XMul(XSub(Zero, r), T)) :
             LET d1 == D1(lnSK, r, sigma, T, sqrtT)
                 d2 == XSub(d1, XMul(sigma, sqrtT))
             IN  \E e1 \in ExpOf(GaussExponent(d1)), e2 \in ExpOf(GaussExponent(d2)) :
                 \E root1 \in SqrtOf(XSub(One, e1)), root2 \in SqrtOf(XSub(One, e2)) :
                    /\ d1 = d2 => (e1 = e2 /\ root1 = root2)
                    /\ LET base == XSub(XMul(S, NormCDF(d1, root1)),
                                        XMul(XMul(K, disc), NormCDF(d2, root2)))
                           adjusted == AdjustedCall(base, S, K, sigma, T)
                           callPrice == XMax(adjusted, Tick)
                           putPrice == XSub(XAdd(callPrice, XMul(K, disc)), S)
                       IN  /\ optionPricing' = [call |-> XMax(callPrice, Tick),
                                                put |-> XMax(putPrice, Tick)]
                           /\ priced' = [ran |-> TRUE, S |-> S, K |-> K,
                                         days |-> daysToExpiry, disc |-> disc,
                                         callBeforeFloor |-> adjusted,
                                         putBeforeFloor |-> putPrice]
    /\ UNCHANGED <<pc, callVars, stockData, simVars, allocVars, toasts, upVars,
                   strikePrice, daysToExpiry, riskFreeRate, volatility>>

\* what the user types into the fields of the option form
OptionInputs ==
    [strikePrice |-> {Num(100)}, daysToExpiry |-> {Zero, Num(365)},
     riskFreeRate |-> {Zero}, volatility |-> {Zero}]

\* lines 642, 651, 660, 669: the onChange handlers of the four fields, each
\* storing Number(e.target.value)
SetOptionField ==
    /\ pc = "page"
    /\ \/ /\ strikePrice' \in OptionInputs.strikePrice
          /\ UNCHANGED <<daysToExpiry, riskFreeRate, volatility>>
       \/ /\ daysToExpiry' \in OptionInputs.daysToExpiry
          /\ UNCHANGED <<strikePrice, riskFreeRate, volatility>>
       \/ /\ riskFreeRate' \in OptionInputs.riskFreeRate
          /\ UNCHANGED <<strikePrice, daysToExpiry, volatility>>
       \/ /\ volatility' \in OptionInputs.volatility
          /\ UNCHANGED <<strikePrice, daysToExpiry, riskFreeRate>>
    /\ UNCHANGED <<pc, callVars, stockData, simVars, allocVars, toasts, upVars,
                   optionPricing, priced>>

\* lines 25-29: the option form as the page is constructed (the strike
\* 351.0511426955417 is kept to the cent)
InitOption ==
    /\ strikePrice = R(35105, 100)
    /\ daysToExpiry = Num(30)
    /\ riskFreeRate = Num(5)
    /\ volatility = Num(25)
    /\ optionPricing = [call |-> R(1245, 100), put |-> R(892, 100)]
    /\ priced = [ran |-> FALSE]

\* the last close of the series on display
LastCloses == {Num(100), Num(200)}

\* the functions of stockAnalytics.ts are not running
NoCall ==
    /\ data = <<>> /\ i = 0 /\ result = <<>> /\ input = <<>> /\ rnd = <<>>
    /\ NoGenerator /\ NoBacktest

InitPricer ==
    /\ pc = "page"
    /\ \E c \in LastCloses : stockData = <<BasePoint(0, c)>>
    /\ InitOption
    /\ monteCarloResults = Null
    /\ NoAllocator
    /\ toasts = <<>>
    /\ NoUpload
    /\ NoCall

NextPricer == SetOptionField \/ CalculateOptionPrice

SpecPricer == InitPricer /\ [][NextPricer]_vars

(***************************************************************************)
(* Properties of calculateOptionPrice.                                     *)
(***************************************************************************)
\* the latest calculation read a spot, a strike and days to expiry above 0
ValidQuoteInputs ==
    /\ priced.ran
    /\ XLt(Zero, priced.S) /\ XLt(Zero, priced.K) /\ XLt(Zero, priced.days)

\* C11: for spot > 0, strike > 0 and days to expiry > 0, whatever the rate
\* and the volatility, the quote stored has call >= 0.01 and put >= 0.01.
C11_QuoteAtLeastTick ==
    ValidQuoteInputs
        => /\ XGe(optionPricing.call, Tick)
           /\ XGe(optionPricing.put, Tick)

\* C12: when the floor of 0.01 raised neither value, the quote stored
\* satisfies put - call = K * e^(-rT) - S, in the branch S > K and in the
\* other branch (an equality with a NaN side is false).
C12_PutCallParity ==
    (/\ ValidQuoteInputs
     /\ ~XLt(priced.callBeforeFloor, Tick)
     /\ ~XLt(priced.putBeforeFloor, Tick))
        => LET lhs == XSub(optionPricing.put, optionPricing.call)
               rhs == XSub(XMul(priced.K, priced.disc), priced.S)
           IN  ~IsNaN(lhs) /\ ~IsNaN(rhs) /\ lhs = rhs

(***************************************************************************)
(* runMonteCarloSimulation (part_000 145-180).  The source runs 10000      *)
(* trials of 252 days; the model runs simulations trials of timeHorizon    *)
(* days.  rnd is the tape of the draws of Math.random(), read cyclically.  *)
(***************************************************************************)
simulations == 101
timeHorizon == 2

\* lines 155-158: the price after the days from day on of trial t
RECURSIVE Walk(_, _, _, _)
Walk(price, tape, t, day) ==
    IF day >= timeHorizon THEN price
    ELSE LET randomShock == RMul(RMul(RSub(Draw(tape, t * timeHorizon + day), R(1, 2)),
                                      R(2, 100)), Num(2))
         IN  Walk(RMul(price, RAdd(RAdd(One, R(8, 10000)), randomShock)), tape, t, day + 1)

\* lines 151-159: the terminal price of trial t
TerminalPrice(series, tape, t) == Walk(SpotOf(series, Num(100)), tape, t, 0)

\* the slip of sorting with (a, b) => b - a
SortedDescending(seq) ==
    LET n == Len(seq)
        rank == [j \in 1..n |->
                    Cardinality({m \in 1..n : RGt(seq[m], seq[j]) \/ (seq[m] = seq[j] /\ m < j)})]
    IN  [k \in 1..n |-> seq[CHOOSE j \in 1..n : rank[j] = k - 1]]

\* line 162: results.sort((a, b) => a - b), ascending and stable: the
\* element of rank k is the one with k smaller-or-earlier elements before it
Sorted(seq) ==
    LET n == Len(seq)
        rank == [j \in 1..n |->
                    Cardinality({m \in 1..n : RLt(seq[m], seq[j]) \/ (seq[m] = seq[j] /\ m < j)})]
    IN  [k \in 1..n |-> seq[CHOOSE j \in 1..n : rank[j] = k - 1]]

\* reduce((sum, val) => sum + val, 0); the sum is exact and the range is halved
RECURSIVE SumRange(_, _, _)
SumRange(arr, lo, hi) ==
    IF lo > hi THEN Zero
    ELSE IF lo = hi THEN arr[lo]
    ELSE LET mid == (lo + hi) \div 2
         IN  RAdd(SumRange(arr, lo, mid), SumRange(arr, mid + 1, hi))

\* lines 162-174: results is sorted in place, the quantiles and the mean are
\* read from it and the sample is cut from it
MonteCarloSummary(seq) ==
    LET sorted == Sorted(seq)
    IN  [expectedValue |-> RDiv(SumRange(sorted, 1, Len(sorted)), Num(simulations)),
         var95 |-> At(sorted, Floor(RMul(Num(simulations), R(5, 100)))),
         var99 |-> At(sorted, Floor(RMul(Num(simulations), R(1, 100)))),
         confidence95 |-> At(sorted, Floor(RMul(Num(simulations), R(5, 100)))),
         confidence99 |-> At(sorted, Floor(RMul(Num(simulations), R(1, 100)))),
         simulations |-> Slice(sorted, 0, 100)]

\* the number of runs of a handler that notifies, per behaviour
MaxRuns == 1

\* lines 145-148: the button is clicked
MonteCarloEnter ==
    /\ pc = "page"
    /\ Len(toasts) < MaxRuns
    /\ results' = <<>>
    /\ i' = 0
    /\ pc' = "monteCarlo"
    /\ UNCHANGED <<data, result, input, rnd, genVars, capital, shares, lastTrade,
                   stockData, optVars, simVars, allocVars, toasts, upVars, ddVars>>

\* one iteration of the loop of lines 150-160
MonteCarloTrial ==
    /\ pc = "monteCarlo"
    /\ i < simulations
    /\ results' = Append(results, TerminalPrice(stockData, rnd, i))
    /\ i' = i + 1
    /\ UNCHANGED <<pc, data, result, input, rnd, genVars, capital, shares, lastTrade,
                   stockData, optVars, simVars, allocVars, toasts, upVars, ddVars>>

\* lines 162-179: the loop is over
MonteCarloStore ==
    /\ pc = "monteCarlo"
    /\ ~(i < simulations)
    /\ results' = Sorted(results)
    /\ monteCarloResults' = MonteCarloSummary(results)
    /\ toasts' = Append(toasts, [title |-> "Monte Carlo Complete", variant |-> "default"])
    /\ pc' = "page"
    /\ UNCHANGED <<data, i, result, input, rnd, genVars, capital, shares, lastTrade,
                   stockData, optVars, allocVars, upVars, ddVars>>

\* the tapes of Math.random(): each draw makes the day's factor 0.99, 1 or 1.01
ShockTapes ==
    { <<R(48, 100)>>,
      <<R(73, 100), R(48, 100), R(23, 100)>>,
      <<R(23, 100), R(73, 100), R(73, 100), R(48, 100), R(23, 100)>>,
      [k \in 1..41 |-> IF k \in {1, 2} THEN R(23, 100)
                        ELSE IF k % 2 = 0 THEN R(73, 100) ELSE R(48, 100)] }

InitMonteCarlo ==
    /\ pc = "page"
    /\ \E c \in LastCloses : stockData = <<BasePoint(0, c)>>
    /\ InitOption
    /\ monteCarloResults = Null
    /\ NoAllocator
    /\ toasts = <<>>
    /\ NoUpload
    /\ rnd \in ShockTapes
    /\ data = <<>> /\ i = 0 /\ result = <<>> /\ input = <<>>
    /\ NoGenerator /\ NoBacktest

NextMonteCarlo == MonteCarloEnter \/ MonteCarloTrial \/ MonteCarloStore

SpecMonteCarlo == InitMonteCarlo /\ [][NextMonteCarlo]_vars

(***************************************************************************)
(* Properties of runMonteCarloSimulation.                                  *)
(***************************************************************************)
\* C13: in every result stored var99 <= var95, the two being the values at
\* the indices floor(0.01 * paths) and floor(0.05 * paths) of the terminal
\* prices in ascending order (results holds them until the next run starts).
C13_QuantileOrder ==
    (monteCarloResults # Null /\ pc = "page")
        => /\ RLe(monteCarloResults.var99, monteCarloResults.var95)
           /\ \A k \in 1..(Len(results) - 1) : RLe(results[k], results[k + 1])
           /\ monteCarloResults.var95 = At(results, Floor(RMul(Num(Len(results)), R(5, 100))))
           /\ monteCarloResults.var99 = At(results, Floor(RMul(Num(Len(results)), R(1, 100))))

\* C13 witness: a result whose var99 is strictly below its var95.
C13_Witness ==
    /\ monteCarloResults # Null
    /\ RLt(monteCarloResults.var99, monteCarloResults.var95)

\* C14: the sample stored has length min(100, paths) and sample[k] is the
\* terminal price of trial k, in the order in which the trials were run.
C14_SampleInTrialOrder ==
    monteCarloResults # Null
        => /\ Len(monteCarloResults.simulations) = Min(100, simulations)
           /\ \A k \in 1..Len(monteCarloResults.simulations) :
                 monteCarloResults.simulations[k] = TerminalPrice(stockData, rnd, k - 1)

(***************************************************************************)
(* optimizePortfolio (part_000 244-270) and runBlackLitterman (182-220).   *)
(* The arrays and the map the two handlers work on are literals of the     *)
(* source; the model lets them range over a few sets of values, the        *)
(* source's among them.                                                    *)
(***************************************************************************)
\* reduce((sum, x) => sum + x, 0) over a short array
RECURSIVE SumOf(_)
SumOf(seq) == IF seq = <<>> THEN Zero ELSE XAdd(seq[1], SumOf(Tail(seq)))

\* the slip of leaving out the division by the total
SharpeWeightsUnscaled(rets, vols) ==
    [k \in 1..Len(rets) |-> XMul(XDiv(rets[k], vols[k]), Num(100))]

\* lines 250-252: the Sharpe ratios, their total, and each ratio's share of
\* the total as a percentage
SharpeWeights(rets, vols) ==
    LET sharpeRatios == [k \in 1..Len(rets) |-> XDiv(rets[k], vols[k])]
        totalSharpe == SumOf(sharpeRatios)
    IN  [k \in 1..Len(rets) |-> XMul(XDiv(sharpeRatios[k], totalSharpe), Num(100))]

\* lines 254-259; the square root of expectedVolatility is kept as a term
OptimizedPortfolio(rets, vols) ==
    LET optimalWeights == SharpeWeights(rets, vols)
    IN  [assets |-> <<"Tech", "Healthcare", "Finance", "Energy", "Consumer">>,
         weights |-> optimalWeights,
         expectedReturn |->
             SumOf([k \in 1..Len(rets) |-> XMul(rets[k], XDiv(optimalWeights[k], Num(100)))]),
         expectedVolatility |->
             [sqrt |-> SumOf([k \in 1..Len(vols) |->
                          LET x == XMul(vols[k], XDiv(optimalWeights[k], Num(100)))
                          IN  XMul(x, x)])]]

\* the handler of the Optimize button (lines 244-270)
OptimizePortfolio ==
    /\ pc = "page"
    /\ Len(toasts) < MaxRuns
    /\ portfolio' = [k \in DOMAIN portfolio \cup {"optimized"} |->
                        IF k = "optimized" THEN OptimizedPortfolio(returns, volatilities)
                        ELSE portfolio[k]]
    /\ toasts' = Append(toasts, [title |-> "Portfolio Optimized", variant |-> "default"])
    /\ UNCHANGED <<pc, callVars, stockData, optVars, simVars, upVars,
                   returns, volatilities, expectedReturns, views, blackLittermanResults>>

\* line 184
assets == <<"Stocks", "Bonds", "Commodities", "REITs">>

\* lines 196-202: views[asset] is read as a condition, so an absent view and
\* a view of 0 are both falsy
BlReturns(priors, vws) ==
    [k \in 1..Len(priors) |->
        IF assets[k] \in DOMAIN vws /\ vws[assets[k]] # Zero /\ ~IsNaN(vws[assets[k]])
        THEN XDiv(XAdd(priors[k], vws[assets[k]]), Num(2))
        ELSE priors[k]]

\* lines 205-206
OptimalWeights(blReturns) ==
    [k \in 1..Len(blReturns) |-> XDiv(blReturns[k], SumOf(blReturns))]

\* the handler of the Black-Litterman button (lines 182-220)
RunBlackLitterman ==
    /\ pc = "page"
    /\ Len(toasts) < MaxRuns
    /\ blackLittermanResults' =
          [assets |-> assets,
           marketWeights |-> <<R(6, 10), R(3, 10), R(5, 100), R(5, 100)>>,
           expectedReturns |-> BlReturns(expectedReturns, views),
           optimalWeights |-> OptimalWeights(BlReturns(expectedReturns, views)),
           views |-> views]
    /\ toasts' = Append(toasts, [title |-> "Black-Litterman Complete", variant |-> "default"])
    /\ UNCHANGED <<pc, callVars, stockData, optVars, simVars, upVars,
                   returns, volatilities, expectedReturns, views, portfolio>>

\* a map from the assets named to the returns given
ViewOf(names, values) ==
    [a \in {names[k] : k \in 1..Len(names)} |->
        values[CHOOSE k \in 1..Len(names) : names[k] = a]]

\* the inputs of the two handlers: lines 246, 247, 186 and 190-193 come first
AllocatorInputs ==
    [returns |-> { <<R(12, 100), R(8, 100), R(6, 100), R(10, 100), R(7, 100)>>,
                   <<R(1, 100), R(1, 100), R(1, 100), R(1, 100), R(1, 100)>>,
                   <<R(5, 100), R(20, 100), R(1, 100), R(9, 100), R(30, 100)>> },
     volatilities |-> { <<R(20, 100), R(15, 100), R(12, 100), R(25, 100), R(14, 100)>>,
                        <<R(10, 100), R(10, 100), R(10, 100), R(10, 100), R(10, 100)>>,
                        <<R(50, 100), R(5, 100), R(12, 100), R(1, 100), R(14, 100)>> },
     expectedReturns |-> { <<R(8, 100), R(4, 100), R(6, 100), R(7, 100)>>,
                           <<R(2, 100), R(2, 100), R(10, 100), R(1, 100)>> },
     views |-> { ViewOf(<<"Stocks", "Bonds">>, <<R(10, 100), R(3, 100)>>),
                 ViewOf(<<>>, <<>>),
                 ViewOf(<<"Stocks">>, <<Zero>>),
                 ViewOf(<<"Commodities", "REITs">>, <<R(-2, 100), R(7, 100)>>) }]

InitAllocators ==
    /\ pc = "page"
    /\ \E c \in LastCloses : stockData = <<BasePoint(0, c)>>
    /\ InitOption
    /\ monteCarloResults = Null
    /\ returns \in AllocatorInputs.returns
    /\ volatilities \in AllocatorInputs.volatilities
    /\ expectedReturns \in AllocatorInputs.expectedReturns
    /\ views \in AllocatorInputs.views
    /\ portfolio = [initial |-> Num(10000), current |-> Num(12500), return |-> Num(25)]
    /\ blackLittermanResults = Null
    /\ toasts = <<>>
    /\ NoUpload
    /\ NoCall

NextAllocators == OptimizePortfolio \/ RunBlackLitterman

SpecAllocators == InitAllocators /\ [][NextAllocators]_vars

(***************************************************************************)
(* Properties of the two allocators.                                       *)
(***************************************************************************)
Optimized == "optimized" \in DOMAIN portfolio

StrictlyPositive(seq) == \A k \in 1..Len(seq) : XLt(Zero, seq[k])

\* C15 as stated: for strictly positive returns and volatilities the weights
\* of the allocation stored sum to 1.
C15_WeightsSumToOne ==
    (Optimized /\ StrictlyPositive(returns) /\ StrictlyPositive(volatilities))
        => SumOf(portfolio.optimized.weights) = One

\* C15 as amended: for strictly positive returns and volatilities the
\* weights of the allocation stored are percentages: weight_i is
\* 100 * (return_i / volatility_i) / sum_j (return_j / volatility_j), and
\* the weights sum to 100.
C15_WeightsSumToHundred ==
    (Optimized /\ StrictlyPositive(returns) /\ StrictlyPositive(volatilities))
        => /\ SumOf(portfolio.optimized.weights) = Num(100)
           /\ \A k \in 1..Len(returns) :
                 XMul(XMul(portfolio.optimized.weights[k], volatilities[k]),
                      SumOf([j \in 1..Len(returns) |-> XDiv(returns[j], volatilities[j])]))
                    = XMul(Num(100), returns[k])

\* C15 witness: an allocation stored whose weights differ from each other.
C15_Witness ==
    /\ Optimized
    /\ StrictlyPositive(returns) /\ StrictlyPositive(volatilities)
    /\ portfolio.optimized.weights[1] # portfolio.optimized.weights[2]
    /\ SumOf([j \in 1..Len(returns) |-> XDiv(returns[j], volatilities[j])]) # One

Number(x) == [num |-> x]
String(s) == [str |-> s]
IsNumber(v) == "num" \in DOMAIN v

\* JavaScript truthiness: undefined, "", 0 and NaN are falsy
JsTruthy(v) == v # Undefined /\ v # String("") /\ v # Number(Zero) /\ v # Number(NaN)

NoKeys == [keys |-> <<>>, at |-> <<>>]

\* row[key], undefined for a key the row does not have
Get(row, key) == IF key \in DOMAIN row.at THEN row.at[key] ELSE Undefined

\* row[key] = v: a new key goes last, a key the row has keeps its place
SetKey(row, key, v) ==
    [keys |-> IF key \in DOMAIN row.at THEN row.keys ELSE Append(row.keys, key),
     at |-> [k \in DOMAIN row.at \cup {key} |-> IF k = key THEN v ELSE row.at[k]]]

Whitespace == {" ", "\r", "\t"}

\* text.split(sep)
RECURSIVE Split(_, _)
Split(text, sep) ==
    IF \A k \in 1..Len(text) : text[k] # sep THEN <<text>>
    ELSE LET k == CHOOSE k \in 1..Len(text) :
                      text[k] = sep /\ \A j \in 1..(k - 1) : text[j] # sep
         IN <<SubSeq(text, 1, k - 1)>> \o Split(SubSeq(text, k + 1, Len(text)), sep)

\* text.trim()
Trim(text) ==
    LET inked == {k \in 1..Len(text) : text[k] \notin Whitespace}
    IN IF inked = {} THEN <<>>
       ELSE SubSeq(text, CHOOSE k \in inked : \A j \in inked : k <= j,
                         CHOOSE k \in inked : \A j \in inked : k >= j)

\* the string that the tokens spell
RECURSIVE Spelled(_)
Spelled(text) == IF text = <<>> THEN "" ELSE Head(text) \o Spelled(Tail(text))

\* lines 341 and 344: line.split(',').map(v => v.trim().replace(/"/g, ''))
Cells(line) ==
    LET parts == Split(line, ",")
    IN [k \in 1..Len(parts) |->
           Spelled(SelectSeq(Trim(parts[k]), LAMBDA c : c # "\""))]

\* header.toLowerCase(), for the words that the headers of the model are
ToLowerCase(header) ==
    CASE header \in {"date", "Date", "DATE"} -> "date"
      [] header \in {"close", "Close"} -> "close"
      [] header \in {"price", "Price"} -> "price"
      [] OTHER -> header

\* header.toLowerCase().includes(word), for the same words
Includes(header, word) == ToLowerCase(header) = word

\* parseFloat(value): the longest numeric prefix, NaN when there is none
ParseFloat(value) ==
    CASE value = String("10") -> Num(10)
      [] value = String("20") -> Num(20)
      [] value = String("50") -> Num(50)
      [] value = String("2021-05-01") -> Num(2021)
      [] OTHER -> NaN

\* Number(value): the whole string must be a numeral, and "" is 0
NumberOf(value) ==
    CASE value = String("") -> Zero
      [] value \in {String("10"), String("20"), String("50")} -> ParseFloat(value)
      [] OTHER -> NaN

NumericWords == {"price", "close", "open", "high", "low", "volume"}

\* lines 348-361: the value a row gets under a header
CellValue(header, value) ==
    IF \E word \in NumericWords : Includes(header, word)
    THEN LET x == ParseFloat(value) IN Number(IF x \in {NaN, Zero} THEN Zero ELSE x)
    ELSE IF Includes(header, "date") THEN value
    ELSE IF IsNaN(NumberOf(value)) THEN value ELSE Number(NumberOf(value))

\* lines 347-362: headers.forEach, from header k on
RECURSIVE FillRow(_, _, _, _)
FillRow(row, headers, values, k) ==
    IF k > Len(headers) THEN row
    ELSE FillRow(SetKey(row, headers[k],
                        CellValue(headers[k], IF k <= Len(values) THEN String(values[k])
                                              ELSE Undefined)),
                 headers, values, k + 1)

\* line 366: new Date('2020-01-01'), midnight of UTC, in hours of UTC
NewYear2020 == 0

\* lines 365-369: the date of a row that has none
WithSyntheticDate(row, index, zone) ==
    IF ~JsTruthy(Get(row, "date")) /\ ~JsTruthy(Get(row, "Date"))
    THEN SetKey(row, "date", [iso |-> IsoDate(zone, SetDateBy(zone, NewYear2020, index))])
    ELSE row

\* what a call raises
TypeError == [thrown |-> "TypeError"]
Threw(outcome) == "thrown" \in DOMAIN outcome

\* lines 339-373: the rows, or the TypeError of lines[0].split when no line is left
ProcessCSVFile(content, zone) ==
    LET lines == SelectSeq(Split(content, "\n"), LAMBDA line : Trim(line) # <<>>)
    IN IF lines = <<>> THEN TypeError
       ELSE LET headers == Cells(lines[1])
            IN [rows |-> [k \in 1..(Len(lines) - 1) |->
                            WithSyntheticDate(FillRow(NoKeys, headers, Cells(lines[k + 1]), 1),
                                              k - 1, zone)]]

(***************************************************************************)
(* part_000, Index.handleCustomDataProcessed, and the render of            *)
(* CustomDataAnalytics that follows it.                                     *)
(***************************************************************************)
\* a || b || ... : the first truthy value, and the last value when none is
RECURSIVE FirstTruthy(_)
FirstTruthy(values) ==
    IF Len(values) = 1 \/ JsTruthy(Head(values)) THEN Head(values)
    ELSE FirstTruthy(Tail(values))

\* line 89: Math.floor(Math.random() * 1000000)
VolumeFiller(u) == Num(Floor(RMul(u, Num(1000000))))

\* lines 83-90: the StockData point of a row; today is the UTC day of new Date()
ConvertedPoint(item, today, u) ==
    [date |-> FirstTruthy(<<Get(item, "date"), Get(item, "Date"), [iso |-> today]>>),
     open |-> FirstTruthy(<<Get(item, "open"), Get(item, "Open"), Get(item, "close"),
                            Get(item, "Close"), Number(Num(100))>>).num,
     high |-> FirstTruthy(<<Get(item, "high"), Get(item, "High"), Get(item, "close"),
                            Get(item, "Close"), Number(Num(100))>>).num,
     low |-> FirstTruthy(<<Get(item, "low"), Get(item, "Low"), Get(item, "close"),
                           Get(item, "Close"), Number(Num(100))>>).num,
     close |-> FirstTruthy(<<Get(item, "close"), Get(item, "Close"), Get(item, "price"),
                             Get(item, "Price"), Number(Num(100))>>).num,
     volume |-> FirstTruthy(<<Get(item, "volume"), Get(item, "Volume"),
                              Number(VolumeFiller(u))>>).num]

\* stockAnalytics.ts 76-144, the whole call: the loop from index k on
RECURSIVE AnnotateFrom(_, _, _)
AnnotateFrom(res, k, tape) ==
    IF k >= Len(res) THEN res
    ELSE TheOne({AnnotateFrom(next, k + 1, tape) : next \in {AnnotateAt(res, k, Draw(tape, k))}})

\* CustomDataAnalytics.tsx 18-20: the first key of the first row that names a price
PriceField(rows) ==
    LET keys == rows[1].keys
        named == {k \in 1..Len(keys) : Includes(keys[k], "close") \/ Includes(keys[k], "price")}
    IN IF named = {} THEN Undefined
       ELSE String(keys[CHOOSE k \in named : \A j \in named : k <= j])

\* the number that arithmetic reads in a value: NaN for what is not a number
NumberIn(v) == IF IsNumber(v) THEN v.num ELSE NaN

\* value || fallback, as a number
NumberOr(v, fallback) == IF JsTruthy(v) THEN NumberIn(v) ELSE fallback

RECURSIVE SumPrices(_, _, _)
SumPrices(prices, lo, hi) ==
    IF lo > hi THEN Zero
    ELSE IF lo = hi THEN prices[lo]
    ELSE LET mid == (lo + hi) \div 2
         IN XAdd(SumPrices(prices, lo, mid), SumPrices(prices, mid + 1, hi))

\* lines 15-43: calculateStats; volatility and sharpeRatio are numbers computed
\* from meanSquare, the radicand of line 31, and totalReturn
CalculateStats(rows) ==
    IF rows = <<>> \/ PriceField(rows) = Undefined THEN Null
    ELSE LET priceField == PriceField(rows).str
             prices == SelectSeq([k \in 1..Len(rows) |-> NumberIn(Get(rows[k], priceField))],
                                 LAMBDA p : ~IsNaN(p))
             n == Len(prices)
             rets == [k \in 1..(n - 1) |-> XDiv(XSub(prices[k + 1], prices[k]), prices[k])]
         IN [avgPrice |-> XDiv(SumPrices(prices, 1, n), Num(n)),
             maxPrice |-> IF n = 0 THEN NegInf
                          ELSE prices[CHOOSE k \in 1..n : \A j \in 1..n : XGe(prices[k], prices[j])],
             minPrice |-> IF n = 0 THEN PosInf
                          ELSE prices[CHOOSE k \in 1..n : \A j \in 1..n : XGe(prices[j], prices[k])],
             meanSquare |-> XDiv(SumPrices([k \in 1..(n - 1) |-> XMul(rets[k], rets[k])], 1, n - 1),
                                 Num(n - 1)),
             totalReturn |-> IF n = 0 THEN NaN
                             ELSE XDiv(XSub(prices[n], prices[1]), prices[1]),
             priceField |-> priceField,
             prices |-> prices]

\* stats?.priceField || 'close'
FieldOf(stats) == IF stats = Null THEN "close" ELSE stats.priceField

\* lines 48-60: prepareChartData; u is the draw of the mock volatility index
PrepareChartData(rows, stats, u) ==
    LET shown == Slice(rows, Max(Len(rows) - 60, 0), Len(rows))
        f == FieldOf(stats)
    IN [k \in 1..Len(shown) |->
          LET index == k - 1
          IN [item |-> shown[k],
              index |-> index,
              sma20 |-> IF index >= 19
                        THEN Number(XDiv(SumPrices(
                                 [j \in 1..20 |-> NumberOr(Get(At(rows, index - 20 + j), f), Zero)],
                                 1, 20), Num(20)))
                        ELSE Null,
              volatilityIndex |-> RAdd(RMul(u, Num(50)), Num(25)),
              momentum |-> IF index > 0
                           THEN XMul(XDiv(XSub(NumberOr(Get(shown[k], f), Zero),
                                               NumberOr(Get(At(rows, index - 1), f), Zero)),
                                          NumberOr(Get(At(rows, index - 1), f), One)),
                                     Num(100))
                           ELSE Zero]]

\* line 71: the index that the price change of entry index reads
PreviousIndex(rows, index) == Len(rows) - 30 + index - 1

\* lines 65-72: volumeAnalysis; data[j] is undefined for a j that is no index of
\* data, and reading a field of undefined raises a TypeError
VolumeAnalysis(rows, stats, u) ==
    LET shown == Slice(rows, Max(Len(rows) - 30, 0), Len(rows))
        f == FieldOf(stats)
        InData(j) == 0 <= j /\ j < Len(rows)
    IN IF \E k \in 2..Len(shown) : ~InData(PreviousIndex(rows, k - 1)) THEN TypeError
       ELSE [entries |-> [k \in 1..Len(shown) |->
               LET index == k - 1
               IN [date |-> FirstTruthy(<<Get(shown[k], "date"), [day |-> index + 1]>>),
                   volume |-> FirstTruthy(<<Get(shown[k], "volume"),
                                 Number(RAdd(Num(Floor(RMul(u, Num(10000000)))), Num(1000000)))>>),
                   price |-> NumberOr(Get(shown[k], f), Zero),
                   priceChange |-> IF index > 0
                                   THEN XSub(NumberOr(Get(shown[k], f), Zero),
                                             NumberOr(Get(At(rows, PreviousIndex(rows, index)), f),
                                                      Zero))
                                   ELSE Zero]]]

\* lines 15-72: what a render of CustomDataAnalytics computes for its charts,
\* or the error it raises
CustomDataAnalytics(rows, u) ==
    LET stats == CalculateStats(rows)
        volumeAnalysis == VolumeAnalysis(rows, stats, u)
    IN IF Threw(volumeAnalysis) THEN volumeAnalysis
       ELSE [stats |-> stats,
             chartData |-> PrepareChartData(rows, stats, u),
             volumeAnalysis |-> volumeAnalysis.entries]

(***************************************************************************)
(* CustomDataAnalytics.tsx, FileUploadProcessor.handleFileUpload, with the *)
(* timers it starts: the progress timer of setInterval, the completion of  *)
(* setTimeout, and the promise of file.text().  The model does not order   *)
(* the timers by their delays: each runs whenever it is due to run at all. *)
(***************************************************************************)
FileStems == {"empty", "blank", "header", "dated", "upper", "price", "two", "symbols", "notes"}

\* name.endsWith(suffix)
EndsWith(name, suffix) == \E stem \in FileStems : name = stem \o suffix

File(name, type, content) ==
    [name |-> name, type |-> type, size |-> Len(content), content |-> content]

EmptyCsv == File("empty.csv", "text/csv", <<>>)
BlankCsv == File("blank.csv", "text/csv", <<" ", "\n", "\r", "\n">>)
HeaderOnlyCsv == File("header.csv", "text/csv", <<"date", ",", "close", "\n">>)
DatedCsv ==
    File("dated.csv", "text/csv",
         <<"Date", ",", "Close", "\n", "2021-05-01", ",", "10", "\n">>)
UpperDateCsv ==
    File("upper.csv", "application/vnd.ms-excel",
         <<"DATE", ",", "close", "\r", "\n", "2021-05-01", ",", "10", "\r", "\n">>)
PriceCsv == File("price.csv", "text/csv", <<"price", "\n", "50">>)
TwoRowCsv ==
    File("two.csv", "text/csv",
         <<"\"", "close", "\"", ",", " ", "\"", "volume", "\"", "\n",
           "10", ",", "20", "\n", "20", ",", "50", "\n">>)
SymbolCsv == File("symbols.csv", "text/csv", <<"symbol", "\n", "abc", "\n">>)
TextFile == File("notes.txt", "text/plain", <<"abc">>)

\* line 447
IsCsv(file) == file.type = "text/csv" \/ EndsWith(file.name, ".csv")

\* the page is shown: no render has raised an error
Mounted == ~Threw(analytics)

Toast(title, variant) == [title |-> title, variant |-> variant]

\* the slip of leaving the file input enabled while a file is processed
InputNeverDisabled == FALSE

\* line 504: disabled={isProcessing}
InputDisabled == isProcessing

\* lines 425-451 up to the first await: the user picks a file.  A CSV file is
\* read first; a file of another type has no rows (the model has no PDF and
\* no Excel file), and its completion is scheduled at once, lines 456-474
SelectFile ==
    /\ pc = "page" /\ Mounted
    /\ files # <<>>
    /\ ~InputDisabled
    /\ LET file == Head(files)
       IN /\ uploadedFile' = file
          /\ IF IsCsv(file)
             THEN reading' = Append(reading, file) /\ pending' = pending
             ELSE reading' = reading /\ pending' = Append(pending, [file |-> file, rows |-> <<>>])
    /\ files' = Tail(files)
    /\ isProcessing' = TRUE
    /\ progress' = 0
    /\ intervals' = intervals + 1
    /\ lastTrigger' = "upload"
    /\ UNCHANGED <<pc, callVars, stockData, optVars, simVars, allocVars, toasts, fileInfo,
                   customData, customFileName, showCustomAnalytics, selectedStock, analytics,
                   analysisResults, report>>

\* lines 434-442: one run of the callback of a progress timer
ProgressTick ==
    /\ pc = "page" /\ Mounted
    /\ intervals > 0
    /\ IF progress >= 90
       THEN progress' = 90 /\ intervals' = intervals - 1
       ELSE progress' = progress + 10 /\ intervals' = intervals
    /\ UNCHANGED <<pc, callVars, stockData, optVars, simVars, allocVars, toasts, files,
                   uploadedFile, isProcessing, fileInfo, reading, pending, customData,
                   customFileName, showCustomAnalytics, selectedStock, analytics,
                   analysisResults, report, lastTrigger>>

\* lines 448-449 and 456-484: the text of the file arrives and is parsed; the
\* completion is scheduled, or the error is caught
ReadDone ==
    /\ pc = "page" /\ Mounted
    /\ reading # <<>>
    /\ LET file == Head(reading)
           processedData == ProcessCSVFile(file.content, tz)
       IN IF Threw(processedData)
          THEN /\ isProcessing' = FALSE
               /\ progress' = 0
               /\ toasts' = Append(toasts, Toast("Processing Error", "destructive"))
               /\ pending' = pending
          ELSE /\ pending' = Append(pending, [file |-> file, rows |-> processedData.rows])
               /\ UNCHANGED <<isProcessing, progress, toasts>>
    /\ reading' = Tail(reading)
    /\ UNCHANGED <<pc, callVars, stockData, optVars, simVars, allocVars, files, uploadedFile,
                   fileInfo, intervals, customData, customFileName, showCustomAnalytics,
                   selectedStock, analytics, analysisResults, report, lastTrigger>>

FillerDraws == {Zero, R(1, 2)}

\* lines 457-474, the callback of setTimeout, with the handleCustomDataProcessed
\* it calls (part_000 77-101) and the render of the page that follows
DeliverRows ==
    /\ pc = "page" /\ Mounted
    /\ pending # <<>>
    /\ LET file == Head(pending).file
           rows == Head(pending).rows
       IN /\ progress' = 100
          /\ fileInfo' = [name |-> file.name, size |-> file.size, type |-> file.type,
                          recordCount |-> Len(rows),
                          columns |-> IF rows = <<>> THEN <<>> ELSE rows[1].keys]
          /\ customData' = rows
          /\ customFileName' = file.name
          /\ showCustomAnalytics' = TRUE
          /\ \E u \in FillerDraws :
               /\ IF Len(rows) > 0
                  THEN /\ stockData' = AnnotateFrom(
                              [k \in 1..Len(rows) |-> ConvertedPoint(rows[k], IsoDate(tz, now), u)],
                              0, rnd)
                       /\ selectedStock' = "CUSTOM_UPLOAD"
                  ELSE UNCHANGED <<stockData, selectedStock>>
               /\ analytics' = IF Len(rows) > 0 THEN CustomDataAnalytics(rows, u) ELSE Null
          /\ toasts' = toasts \o <<Toast("Custom Dataset Loaded", "default"),
                                   Toast("File Processed Successfully", "default")>>
    /\ isProcessing' = FALSE
    /\ pending' = Tail(pending)
    /\ UNCHANGED <<pc, callVars, optVars, simVars, allocVars, files, uploadedFile, intervals,
                   reading, analysisResults, report, lastTrigger>>

Files ==
    {EmptyCsv, BlankCsv, HeaderOnlyCsv, DatedCsv, UpperDateCsv, PriceCsv, TwoRowCsv,
     SymbolCsv, TextFile}

\* the files of a session: one file, or a file of one row and then any file
UploadPlans ==
    {<<f>> : f \in Files} \cup {<<f, g>> : f \in {DatedCsv, PriceCsv}, g \in Files}

InitUpload ==
    /\ pc = "page"
    /\ files \in UploadPlans
    /\ uploadedFile = Null /\ isProcessing = FALSE /\ progress = 0 /\ fileInfo = Null
    /\ intervals = 0 /\ reading = <<>> /\ pending = <<>>
    /\ customData = <<>> /\ customFileName = "" /\ showCustomAnalytics = FALSE
    /\ selectedStock = "TSLA"
    /\ analytics = Null
    /\ analysisResults = Null /\ report = Null /\ lastTrigger = "none"
    /\ \E c \in LastCloses : stockData = <<BasePoint(0, c)>>
    /\ InitOption
    /\ monteCarloResults = Null
    /\ NoAllocator
    /\ toasts = <<>>
    /\ data = <<>> /\ i = 0 /\ result = <<>> /\ input = <<>>
    /\ rnd = <<PlainOverlay, NoOverlay>>
    /\ symbol = "" /\ days = 0 /\ currentPrice = Zero /\ startDate = 0
    /\ now = Today /\ tz \in TimeZones
    /\ NoBacktest

\* lines 434-442 once a render has raised its error and the page is gone: the
\* timers go on, and their callbacks call setProgress of a component that is
\* not rendered any more.  React may or may not run the updater of such a
\* call; when it does, with the progress of 100 that the completion has set,
\* line 437 cancels the timer, and the value returned is dropped
StaleTick ==
    /\ pc = "page" /\ ~Mounted
    /\ intervals > 0
    /\ progress >= 90
    /\ intervals' = intervals - 1
    /\ UNCHANGED <<pc, callVars, stockData, optVars, simVars, allocVars, toasts, files,
                   uploadedFile, isProcessing, progress, fileInfo, reading, pending,
                   customData, customFileName, showCustomAnalytics, selectedStock, analytics,
                   analysisResults, report, lastTrigger>>

NextUpload == SelectFile \/ ProgressTick \/ ReadDone \/ DeliverRows \/ StaleTick

SpecUpload == InitUpload /\ [][NextUpload]_vars

\* the timers fire and the promise of file.text() settles: a callback that is
\* due is run; React owes nothing to the timers of a page that is gone
TextArrives == pc = "page" /\ Mounted /\ reading # <<>> /\ reading' = Tail(reading)
TimeoutFires == pc = "page" /\ Mounted /\ pending # <<>> /\ pending' = Tail(pending)

\* the steps of TextArrives are those of ReadDone and the steps of
\* TimeoutFires those of DeliverRows, each enabled whenever its queue holds
\* something on a page that is shown
SpecUploadLive ==
    /\ SpecUpload
    /\ WF_vars(ProgressTick) /\ WF_reading(TextArrives) /\ WF_pending(TimeoutFires)

(***************************************************************************)
(* Properties of the upload path.                                           *)
(***************************************************************************)
\* a CSV file without a header row: no line of it has anything but white space
Malformed(file) ==
    /\ IsCsv(file)
    /\ \A k \in 1..Len(file.content) : file.content[k] \in Whitespace \cup {"\n"}

\* the upload of uploadedFile is over: it was delivered, or its error was reported
UploadOver == uploadedFile # Null /\ ~isProcessing

\* C17: once the upload of a malformed CSV file (empty, or without a header
\* row) is over, the dataset of the page is empty, the latest notification is
\* the failure notification, and the page is still shown.
C17_MalformedCsvEmptiesDataset ==
    (UploadOver /\ Malformed(uploadedFile)) =>
        /\ customData = <<>>
        /\ toasts # <<>> /\ toasts[Len(toasts)].variant = "destructive"
        /\ Mounted

\* the headers of a CSV file that has a header row
HeadersOf(file) ==
    Cells(SelectSeq(Split(file.content, "\n"), LAMBDA line : Trim(line) # <<>>)[1])

\* the rows on the page are the rows of uploadedFile, a CSV file
RowsOfUploadedCsv ==
    /\ UploadOver /\ IsCsv(uploadedFile) /\ ~Malformed(uploadedFile)
    /\ customFileName = uploadedFile.name

\* C18: a row parsed from a CSV file has the synthetic date of its 0-based
\* index, counted in days from 2020-01-01, exactly when no header of the file
\* contains "date" in any letter case; the rows of a file with such a header
\* keep that column as a string and have no synthetic date.
C18_SyntheticDateIffNoDateColumn ==
    RowsOfUploadedCsv =>
        LET headers == HeadersOf(uploadedFile)
            dated == {k \in 1..Len(headers) : Includes(headers[k], "date")}
        IN \A k \in 1..Len(customData) :
              LET row == customData[k]
              IN IF dated = {}
                 THEN Get(row, "date") = [iso |-> NewYear2020 \div 24 + (k - 1)]
                 ELSE /\ \A h \in dated : "str" \in DOMAIN Get(row, headers[h])
                      /\ \A j \in 1..Len(row.keys) : "iso" \notin DOMAIN Get(row, row.keys[j])

\* the close that a row resolves to through close, Close, price and Price
ResolvedClose(item) ==
    FirstTruthy(<<Get(item, "close"), Get(item, "Close"), Get(item, "price"),
                  Get(item, "Price"), Number(Num(100))>>).num

\* the series on display is the conversion of the rows on the page
SeriesOfCustomData ==
    /\ customData # <<>>
    /\ selectedStock = "CUSTOM_UPLOAD"
    /\ Len(stockData) = Len(customData)

\* C19: the point converted from a row has the row's resolved close as its
\* close, and as its open, high and low wherever the row has none; a row
\* with nothing but a price has open = high = low = close = that price.
C19_AbsentFieldsTakeResolvedClose ==
    SeriesOfCustomData =>
        \A k \in 1..Len(customData) :
            LET item == customData[k]
                point == stockData[k]
                Absent(lower, upper) ==
                    Get(item, lower) = Undefined /\ Get(item, upper) = Undefined
            IN /\ point.close = ResolvedClose(item)
               /\ Absent("open", "Open") => point.open = ResolvedClose(item)
               /\ Absent("high", "High") => point.high = ResolvedClose(item)
               /\ Absent("low", "Low") => point.low = ResolvedClose(item)

\* C20: for a dataset of one row or more, the render of the custom analytics
\* raises no error, and the page stays shown.
C20_AnalyticsNeverRaise ==
    (showCustomAnalytics /\ customData # <<>>) => Mounted

(***************************************************************************)
(* Properties of the trades of backtestStrategy.                           *)
(***************************************************************************)
DeathCross(k) ==
    /\ Has(At(data, k), "ma20") /\ Has(At(data, k), "ma50")
    /\ Has(At(data, k - 1), "ma20") /\ Has(At(data, k - 1), "ma50")
    /\ RLt(At(data, k).ma20, At(data, k).ma50)
    /\ RGe(At(data, k - 1).ma20, At(data, k - 1).ma50)

\* the loop has run the day lastTrade.day
DayDone == pc \in {"backtest", "backtestDone"} /\ lastTrade.day >= BacktestStart

\* C23: a day trades at most once: it buys, changing capital and shares as a
\* buy does, or it sells, or it leaves both alone.  It trades only when its
\* ma20/ma50 relation crosses that of the previous day.  On a death cross
\* with shares held it sells every share: shares is 0 and capital has grown
\* by shares * close.
C23_OneTradePerCrossover ==
    DayDone =>
        LET day == lastTrade.day
            close == At(data, day).close
            sold == /\ shares = 0
                    /\ capital = RAdd(lastTrade.capitalBefore,
                                      RMul(Num(lastTrade.sharesBefore), close))
            bought == capital = RSub(lastTrade.capitalBefore, RMul(Num(shares), close))
            kept == shares = lastTrade.sharesBefore /\ capital = lastTrade.capitalBefore
        IN /\ lastTrade.kind = "buy" => (bought /\ GoldenCross(day) /\ ~DeathCross(day))
           /\ lastTrade.kind = "sell" => (sold /\ DeathCross(day) /\ ~GoldenCross(day))
           /\ lastTrade.kind = "none" => kept
           /\ (DeathCross(day) /\ lastTrade.sharesBefore > 0)
                  => (lastTrade.kind = "sell" /\ sold)

\* C23 witness: a death cross whose previous day had ma20 = ma50 has sold the
\* shares that were held.
C23_Witness ==
    /\ DayDone
    /\ DeathCross(lastTrade.day)
    /\ At(data, lastTrade.day - 1).ma20 = At(data, lastTrade.day - 1).ma50
    /\ lastTrade.sharesBefore > 0
    /\ lastTrade.kind = "sell"
    /\ shares = 0

\* C24: the trade of a day leaves capital + shares * close of that day as it
\* was before the trade.
C24_TradeKeepsValue ==
    DayDone =>
        TotalValue(capital, shares, At(data, lastTrade.day).close)
            = TotalValue(lastTrade.capitalBefore, lastTrade.sharesBefore,
                         At(data, lastTrade.day).close)

(***************************************************************************)
(* calculateMaxDrawdown (stockAnalytics.ts 249-264).                       *)
(***************************************************************************)
\* the slip of measuring the decline against the close instead of the peak
DrawdownOverClose(pk, close) == XDiv(XSub(pk, close), close)

\* line 257: (peak - item.close) / peak
Drawdown(pk, close) == XDiv(XSub(pk, close), pk)

\* lines 253-261: the loop from index k on; pk and worst are peak and maxDrawdown
RECURSIVE DrawdownFrom(_, _, _, _)
DrawdownFrom(series, k, pk, worst) ==
    IF k >= Len(series) THEN worst
    ELSE LET close == At(series, k).close
             top == IF XLt(pk, close) THEN close ELSE pk
             drawdown == Drawdown(top, close)
         IN DrawdownFrom(series, k + 1, top, IF XLt(worst, drawdown) THEN drawdown ELSE worst)

\* lines 249-264; data[0].close of an empty series raises a TypeError
CalculateMaxDrawdown(series) ==
    IF series = <<>> THEN TypeError
    ELSE [value |-> DrawdownFrom(series, 0, At(series, 0).close, Zero)]

\* the call, for a series that is not empty
MaxDrawdownCall ==
    /\ pc = "drawdownCall"
    /\ data # <<>>
    /\ maxDrawdown' = CalculateMaxDrawdown(data).value
    /\ pc' = "drawdownDone"
    /\ UNCHANGED <<data, i, result, input, rnd, genVars, btVars, pageVars>>

\* the longest series handed to calculateMaxDrawdown
MaxSeries == 4

DrawdownCloses == {Num(50), Num(100), R(301, 2)}

InitDrawdown ==
    /\ pc = "drawdownCall"
    /\ \E n \in 1..MaxSeries :
         \E closes \in [1..n -> DrawdownCloses] :
            data = [k \in 1..n |-> BasePoint(k - 1, closes[k])]
    /\ input = data
    /\ result = <<>> /\ rnd = <<>> /\ i = 0
    /\ NoGenerator /\ NoBacktest
    /\ NoPage

NextDrawdown == MaxDrawdownCall

SpecDrawdown == InitDrawdown /\ [][NextDrawdown]_vars

\* the decline from index a to index b, as a fraction of the close at a
Decline(a, b) == RDiv(RSub(At(data, a).close, At(data, b).close), At(data, a).close)

\* C25: for a series of one point or more with positive closes, the value
\* returned is the largest decline (close[a] - close[b]) / close[a] over the
\* index pairs a <= b, and it is at least 0 and below 1.
C25_LargestDecline ==
    (pc = "drawdownDone" /\ \A k \in 1..Len(data) : RGt(data[k].close, Zero)) =>
        /\ \E a \in 0..(Len(data) - 1) : \E b \in a..(Len(data) - 1) :
              maxDrawdown = Decline(a, b)
        /\ \A a \in 0..(Len(data) - 1) : \A b \in a..(Len(data) - 1) :
              RGe(maxDrawdown, Decline(a, b))
        /\ RGe(maxDrawdown, Zero) /\ RLt(maxDrawdown, One)

\* C25 witness: the largest decline is not the decline from the first close,
\* nor the decline to the last.
C25_Witness ==
    /\ pc = "drawdownDone"
    /\ Len(data) = 4
    /\ RGt(maxDrawdown, Zero)
    /\ \A b \in 0..3 : maxDrawdown # Decline(0, b)
    /\ \A a \in 0..3 : maxDrawdown # Decline(a, 3)

(***************************************************************************)
(* Properties of the uploads in flight, their notifications and timers.    *)
(***************************************************************************)
\* C21: at most one upload is in flight: the files being read and the
\* completions scheduled are one at most, and while there is one
\* isProcessing is true and the file input disabled.
C21_OneUploadInFlight ==
    /\ Len(reading) + Len(pending) <= 1
    /\ (reading # <<>> \/ pending # <<>>) => (isProcessing /\ InputDisabled)

\* C21 witness: the user has another file to pick while the completion of an
\* upload is scheduled and the input is disabled.
C21_Witness ==
    /\ files # <<>>
    /\ Len(pending) = 1
    /\ InputDisabled

\* C22: the completion of an upload that produced no rows shows one
\* notification, a failure notification, and no success notification.
C22_ZeroRowsNotifyFailure ==
    [][(pending # <<>> /\ pending' = Tail(pending) /\ Head(pending).rows = <<>>)
          => /\ Len(toasts') = Len(toasts) + 1
             /\ toasts'[Len(toasts')].variant = "destructive"]_vars

\* the rows of uploadedFile, at least one, were delivered, and no other upload
\* has started
Delivered ==
    /\ UploadOver
    /\ fileInfo # Null
    /\ fileInfo.name = uploadedFile.name
    /\ customData # <<>>

\* C27: from the delivery of the rows of an upload until the next upload
\* starts, progress is 100.
C27_ProgressStaysComplete == Delivered => progress = 100

\* the processing of uploadedFile raised its error, and no other upload has started
Failed == UploadOver /\ Malformed(uploadedFile)

\* C28: from the error of an upload until the next upload starts isProcessing
\* is false and progress is 0.
C28_ProgressStaysZero == Failed => (~isProcessing /\ progress = 0)

\* C29: an upload that has started is over at some later time, and a
\* progress timer that is running is cancelled at some later time.
C29_UploadsFinish ==
    /\ isProcessing ~> ~isProcessing
    /\ (intervals > 0) ~> (intervals = 0)


(***************************************************************************)
(* Index (part_000): handleStockChange and exportReport beside the upload  *)
(* of a custom file.  The 252 days of history that the page asks for are   *)
(* historyDays here, and the draws of Math.random() of one call come from  *)
(* one tape.                                                               *)
(***************************************************************************)
\* stockAnalytics.ts 31-55: the loop from index k on, price being currentPrice
RECURSIVE GenerateFrom(_, _, _, _, _, _, _)
GenerateFrom(zone, start, price, k, n, tape, acc) ==
    IF ~(k < n) THEN acc
    ELSE LET q == Draw(tape, k)
             next == NextPrice(price, q.change)
         IN  GenerateFrom(zone, start, next, k + 1, n, tape,
                          Append(acc, MockPoint(zone, start, next, k, q)))

\* stockAnalytics.ts 23-58, the whole call at the instant t
GenerateMockStockData(sym, n, zone, t, tape, overlays) ==
    TheOne({AnnotateFrom(generated, 0, overlays) :
               generated \in {GenerateFrom(zone, SetDateBy(zone, t, -n),
                                           GetBasePriceForSymbol(sym), 0, n, tape, <<>>)}})

\* stockAnalytics.ts 194-218: the loop from index k on
RECURSIVE BacktestFrom(_, _, _, _, _)
BacktestFrom(series, k, cap, sh, acc) ==
    IF ~(k < Len(series)) THEN acc
    ELSE LET current == At(series, k)
             t == Trade(current, At(series, k - 1), cap, sh)
         IN  BacktestFrom(series, k + 1, t.capital, t.shares,
                          Append(acc, BacktestRecord(current,
                                          TotalValue(t.capital, t.shares, current.close))))

\* stockAnalytics.ts 189-221, the whole call
BacktestStrategy(series) == BacktestFrom(series, BacktestStart, Num(InitialCapital), 0, <<>>)

\* stockAnalytics.ts 158-169
GenerateOptionPricingData ==
    [callPrice |-> R(1245, 100), putPrice |-> R(892, 100), impliedVolatility |-> R(25, 100),
     delta |-> R(65, 100), gamma |-> R(3, 100), theta |-> R(-12, 100), vega |-> R(18, 100),
     rho |-> R(8, 100)]

\* stockAnalytics.ts 171-187: expirations outside, strikes inside; tape holds
\* the draws of Math.random(), read cyclically
GenerateVolatilitySurface(tape) ==
    LET strikes == <<80, 90, 100, 110, 120>>
        expirations == <<30, 60, 90, 180, 365>>
    IN  [k \in 1..(Len(expirations) * Len(strikes)) |->
            [strike |-> strikes[((k - 1) % Len(strikes)) + 1],
             expiration |-> expirations[((k - 1) \div Len(strikes)) + 1],
             volatility |-> RAdd(R(15, 100), RMul(Draw(tape, k - 1), R(3, 10)))]]

\* stockAnalytics.ts 224-226
DailyReturns(series) ==
    [k \in 1..(Len(series) - 1) |->
        XDiv(XSub(series[k + 1].close, series[k].close), series[k].close)]

\* stockAnalytics.ts 228-230: variance * 252, the argument of Math.sqrt
AnnualVariance(series) ==
    LET rets == DailyReturns(series)
        avgReturn == XDiv(SumOf(rets), Num(Len(rets)))
        squares == [k \in 1..Len(rets) |->
                       XMul(XSub(rets[k], avgReturn), XSub(rets[k], avgReturn))]
    IN  XMul(XDiv(SumOf(squares), Num(Len(rets))), Num(252))

\* stockAnalytics.ts 223-247; vol is the value Math.sqrt returned for
\* variance * 252.  sortedReturns[index] of an empty array is undefined
CalculatePortfolioMetrics(series, vol) ==
    LET rets == DailyReturns(series)
        n == Len(rets)
        avgReturn == XDiv(SumOf(rets), Num(n))
        sortedReturns == Sorted(rets)
        Pick(index) == IF index < n THEN Number(sortedReturns[index + 1]) ELSE Undefined
    IN  [avgReturn |-> XMul(avgReturn, Num(252)),
         volatility |-> vol,
         var95 |-> Pick(Floor(RMul(Num(n), R(5, 100)))),
         var99 |-> Pick(Floor(RMul(Num(n), R(1, 100)))),
         sharpeRatio |-> XDiv(XSub(XMul(avgReturn, Num(252)), R(2, 100)), vol),
         maxDrawdown |-> CalculateMaxDrawdown(series).value]

historyDays == 2
MaxSelections == 1
MaxExports == 1

\* the notifications with this title so far
Shown(title) == Cardinality({k \in 1..Len(toasts) : toasts[k].title = title})

\* part_000 272: the symbols of the list, two of them
SessionSymbols == {"TSLA", "AAPL"}

\* the draws of Math.random() during one handleStockChange
SessionTapes ==
    {[days |-> <<d>>, surface |-> <<R(1, 2), Zero>>] : d \in {q \in DayDraws : q.open = q.close}}

\* part_000 40-59, handleStockChange(sym), from the list of line 301 or from
\* the button of line 312, which passes the symbol on display.
\* calculateTechnicalIndicators writes into the points of newData, so the
\* series stored at line 43 is the annotated one
SelectStock ==
    /\ pc = "page" /\ Mounted
    /\ Shown("Analysis Complete") < MaxSelections
    /\ \E sym \in SessionSymbols \cup {selectedStock} : \E tape \in SessionTapes :
         \E newData \in {GenerateMockStockData(sym, historyDays, tz, now, tape.days, rnd)} :
         \E technicalIndicators \in {AnnotateFrom(newData, 0, rnd)} :
             /\ selectedStock' = sym
             /\ stockData' = technicalIndicators
             /\ \E vol \in SqrtOf(AnnualVariance(technicalIndicators)) :
                  analysisResults' =
                    [technicalIndicators |-> technicalIndicators,
                     optionPricing |-> GenerateOptionPricingData,
                     volatilitySurface |-> GenerateVolatilitySurface(tape.surface),
                     backtest |-> BacktestStrategy(technicalIndicators),
                     portfolioMetrics |->
                         CalculatePortfolioMetrics(technicalIndicators, vol)]
    /\ toasts' = Append(toasts, Toast("Analysis Complete", "default"))
    /\ lastTrigger' = "stock"
    /\ UNCHANGED <<pc, callVars, optVars, simVars, allocVars, files, uploadedFile,
                   isProcessing, progress, fileInfo, intervals, reading, pending, customData,
                   customFileName, showCustomAnalytics, analytics, report>>

\* part_000 222-242: the bundle handed to JSON.stringify and the name of the
\* file it is saved under
ExportReport ==
    /\ pc = "page" /\ Mounted
    /\ Shown("Report Exported") < MaxExports
    /\ report' = [symbol |-> selectedStock, analysis |-> analysisResults,
                  portfolio |-> portfolio, timestamp |-> now,
                  download |-> selectedStock \o "_analysis_report.json"]
    /\ toasts' = Append(toasts, Toast("Report Exported", "default"))
    /\ UNCHANGED <<pc, callVars, stockData, optVars, simVars, allocVars, files, uploadedFile,
                   isProcessing, progress, fileInfo, intervals, reading, pending, customData,
                   customFileName, showCustomAnalytics, selectedStock, analytics,
                   analysisResults, lastTrigger>>

\* the files of a session with stock selections
SessionPlans == {<<PriceCsv>>, <<EmptyCsv>>, <<DatedCsv, TextFile>>}

\* part_000 17-37: the state of Index after its first render
InitSession ==
    /\ pc = "page"
    /\ files \in SessionPlans
    /\ uploadedFile = Null /\ isProcessing = FALSE /\ progress = 0 /\ fileInfo = Null
    /\ intervals = 0 /\ reading = <<>> /\ pending = <<>>
    /\ customData = <<>> /\ customFileName = "" /\ showCustomAnalytics = FALSE
    /\ selectedStock = "TSLA"
    /\ analytics = Null
    /\ analysisResults = Null /\ report = Null /\ lastTrigger = "none"
    /\ rnd = <<PlainOverlay, NoOverlay>>
    /\ now = Today /\ tz \in {z \in TimeZones : z.before = z.after}
    /\ \E tape \in SessionTapes :
         stockData = GenerateMockStockData("TSLA", historyDays, tz, now, tape.days, rnd)
    /\ InitOption
    /\ monteCarloResults = Null
    /\ NoAllocator
    /\ toasts = <<>>
    /\ data = <<>> /\ i = 0 /\ result = <<>> /\ input = <<>>
    /\ symbol = "" /\ days = 0 /\ currentPrice = Zero /\ startDate = 0
    /\ NoBacktest

NextSession ==
    SelectFile \/ ProgressTick \/ ReadDone \/ DeliverRows \/ SelectStock \/ ExportReport

SpecSession == InitSession /\ [][NextSession]_vars

ClosesOf(series) == [k \in 1..Len(series) |-> series[k].close]

\* C26: a completion of an upload that runs when the data source triggered
\* last is a stock selection leaves the symbol and the series on display as
\* that selection stored them.
C26_LatestTriggerWins ==
    [][(lastTrigger = "stock" /\ pending # <<>> /\ pending' = Tail(pending))
          => /\ selectedStock' = selectedStock
             /\ ClosesOf(stockData') = ClosesOf(stockData)]_vars

\* C30: the analysis of a report that exportReport writes was computed from
\* the series on display, which is the series of the symbol of the report.
C30_ReportOfSelectedSeries ==
    [][(Shown("Report Exported")' > Shown("Report Exported") /\ report'.analysis # Null)
          => /\ report'.symbol = selectedStock
             /\ ClosesOf(report'.analysis.technicalIndicators) = ClosesOf(stockData)]_vars

====
